---------------------------- MODULE Spec2Model ----------------------------
(***************************************************************************)
(* A model of the rm_vision transmission pipeline:                         *)
(*   - RingBuffer (thread.h, search.cpp, main.cpp), the bounded frame      *)
(*     queue, and the camera thread / main thread that share it;           *)
(*   - the byte-pair run-length codec and the 300-byte MqttPacket          *)
(*     (header.h, search.cpp);                                             *)
(*   - the packed run-length codec and the Huffman stage                   *)
(*     (hero_image_transmission.h).                                        *)
(* Four specifications share the module: Spec / FairSpec (live capture),   *)
(* SpecRing (the queue called sequentially), SpecCodec (the run-length     *)
(* codecs and the packet), SpecHuff (the Huffman stage).                   *)
(***************************************************************************)
EXTENDS Integers, Sequences, FiniteSets, TLC

(* ------------------------------ bounds -------------------------------- *)

\* Frames the capture source can deliver before it must report end of stream.
MaxFrames == 4

\* Capacity of frame_queue in the live-capture model.
QueueCapacity == 2

\* Largest capacity and number of calls tried on a sequentially used RingBuffer.
MaxCapacity == 3

MaxCalls == 10

\* Largest number of cells of the rasters that are tried exhaustively.
MaxCells == 4

\* Largest number of detections process is given.
MaxDetections == 5

\* Largest number of bytes a buffer is cut down to, or cut short by, before
\* decompressHuffman is given it.
MaxCut == 6
MaxStream == 4

(* ------------------------- program constants -------------------------- *)

\* int frame_skip = 1;
frame_skip == 1

\* constexpr int TOTAL_PACKET_BYTE = 300;
TOTAL_PACKET_BYTE == 300

\* constexpr int RLE_DATA_MAX_BYTE = 275;
RLE_DATA_MAX_BYTE == 275

\* constexpr int HEADER_BYTE = 16;
HEADER_BYTE == 16

\* constexpr int RESERVED_BYTE = 9;
RESERVED_BYTE == 9

\* BallInfo balls[4];  and  if (validBalls < 4)
MAX_BALLS == 4

\* compressRLE (search.cpp): count < 255
PAIR_MAX_COUNT == 255

\* compressRLE (hero_image_transmission.h): count < 63
PACKED_MAX_COUNT == 63

\* const size_t RAW_THRESHOLD = 200;
RAW_THRESHOLD == 200

\* raw.push_back(0xFF);  and  if (compressed[0] == 0xFF)
RAW_MARKER == 255

(* ------------------------------ state --------------------------------- *)

VARIABLES
    \* live capture: the shared globals
    running,        \* std::atomic<bool> running
    lockHolder,     \* owner of camera_mutex: "none", "camera" or "main"
    frame_queue,    \* RingBuffer: capacity_, size_, head_, tail_, buffer_
    \* camera thread (camera_thread_func)
    ppc,            \* position of the camera thread
    pframe,         \* its local Mat frame (<<>> is an empty Mat)
    frame_count,    \* its local frame_count
    nread,          \* frames the source has delivered so far
    ppred,          \* last value of the queue_not_full wait predicate
    pnotified,      \* a notify on queue_not_full reached the waiting camera thread
    \* main thread (consumer loop of main)
    cpc,            \* position of the main thread
    cframe,         \* its local Mat frame
    cpred,          \* last value of the frame_available wait predicate
    cnotified,      \* a notify on frame_available reached the waiting main thread
    \* history (not program state)
    offered,        \* frames handed to push by the camera thread, in order
    pushed,         \* frames push accepted, in order
    popped,         \* frames pop returned, in order
    processed,      \* the calls of compressor.process, in order: the frame, how
                    \* the try block ended, the sequence byte of its packet
    \* sequential use of the queue
    ret,            \* return value of the last push / pop call
    lastCall,       \* "none", "push" or "pop"
    ncalls,         \* number of calls made
    \* the run-length codecs and the packet
    variant,        \* "pair" (search.cpp) or "packed" (hero_image_transmission.h)
    img,            \* the Mat given to compressRLE: cols, rows, data
    detections,     \* the detections process accepted, scaled and rounded
    cstep,          \* "input", "stream", "encoded", "decoded" or "displayed"
    result,         \* ProcessResult of process (byte-pair variant)
    stream,         \* the bytes compressRLE produced
    decoded,        \* the pixels decodeRLE produced
    \* the Huffman stage (hero_image_transmission.h)
    rleData,        \* the bytes given to compressHuffman
    compressed,     \* the buffer given to decompressHuffman
    decompressed,   \* the bytes decompressHuffman returned
    hstep,          \* "input", "encoded", "cut", "received", "decoded", ...
    hfault          \* the undefined behaviour the last call met

pipeVars == <<running, lockHolder, ppc, pframe, frame_count, nread, ppred,
              pnotified, cpc, cpred, cnotified, offered, processed>>

ringVars == <<ret, lastCall, ncalls>>

codecVars == <<variant, img, detections, cstep, result, stream, decoded>>

\* What the live-capture actions leave alone, and what the queue calls do.
huffVars == <<rleData, compressed, decompressed, hstep, hfault>>

nonPipeVars == <<ringVars, codecVars, huffVars>>

nonRingVars == <<pipeVars, codecVars, huffVars>>

queueVars == <<frame_queue, cframe, pushed, popped>>

vars == <<pipeVars, ringVars, queueVars, codecVars, huffVars>>

(* ---------------------------- RingBuffer ------------------------------ *)

\* cv::Mat() : a Mat that holds no image
EmptyMat == <<>>

\* RingBuffer::RingBuffer(int capacity)
RingBufferNew(capacity) ==
    [capacity_ |-> capacity, size_ |-> 0, head_ |-> 0, tail_ |-> 0,
     buffer_ |-> [i \in 0..(capacity - 1) |-> EmptyMat]]

\* bool RingBuffer::empty() const
RingEmpty(q) == q.size_ = 0

\* bool RingBuffer::full() const
RingFull(q) == q.size_ >= q.capacity_

\* A push that overwrites the oldest frame when the queue is full.
RingPush_Overwrite(q, frame) ==
    IF q.size_ >= q.capacity_
    THEN [q |-> [q EXCEPT !.buffer_[q.tail_] = frame,
                          !.tail_ = (q.tail_ + 1) % q.capacity_,
                          !.head_ = (q.head_ + 1) % q.capacity_],
          frame |-> EmptyMat,
          ok |-> TRUE]
    ELSE [q |-> [q EXCEPT !.buffer_[q.tail_] = frame,
                          !.tail_ = (q.tail_ + 1) % q.capacity_,
                          !.size_ = q.size_ + 1],
          frame |-> EmptyMat,
          ok |-> TRUE]

\* A push that advances tail_ without the modulo.
RingPush_NoWrap(q, frame) ==
    IF q.size_ >= q.capacity_
    THEN [q |-> q, frame |-> frame, ok |-> FALSE]
    ELSE [q |-> [q EXCEPT !.buffer_[q.tail_] = frame,
                          !.tail_ = q.tail_ + 1,
                          !.size_ = q.size_ + 1],
          frame |-> EmptyMat,
          ok |-> TRUE]

\* A push that copies the frame into the slot and leaves the caller's frame.
RingPush_Copy(q, frame) ==
    IF q.size_ >= q.capacity_
    THEN [q |-> q, frame |-> frame, ok |-> FALSE]
    ELSE [q |-> [q EXCEPT !.buffer_[q.tail_] = frame,
                          !.tail_ = (q.tail_ + 1) % q.capacity_,
                          !.size_ = q.size_ + 1],
          frame |-> frame,
          ok |-> TRUE]

\* bool RingBuffer::push(Mat&& frame): the queue after the call, what is left
\* in the caller's frame (a moved-from Mat is empty), and the return value.
RingPush(q, frame) ==
    IF q.size_ >= q.capacity_
    THEN [q |-> q, frame |-> frame, ok |-> FALSE]
    ELSE [q |-> [q EXCEPT !.buffer_[q.tail_] = frame,
                          !.tail_ = (q.tail_ + 1) % q.capacity_,
                          !.size_ = q.size_ + 1],
          frame |-> EmptyMat,
          ok |-> TRUE]

\* A pop that advances head_ without the modulo.
RingPop_NoWrap(q, frame) ==
    IF q.size_ = 0
    THEN [q |-> q, frame |-> frame, ok |-> FALSE]
    ELSE [q |-> [q EXCEPT !.buffer_[q.head_] = EmptyMat,
                          !.head_ = IF q.head_ + 1 < q.capacity_
                                    THEN q.head_ + 1 ELSE q.head_,
                          !.size_ = q.size_ - 1],
          frame |-> q.buffer_[q.head_],
          ok |-> TRUE]

\* bool RingBuffer::pop(Mat& frame): the queue after the call, the caller's
\* frame after the call, and the return value.
RingPop(q, frame) ==
    IF q.size_ = 0
    THEN [q |-> q, frame |-> frame, ok |-> FALSE]
    ELSE [q |-> [q EXCEPT !.buffer_[q.head_] = EmptyMat,
                          !.head_ = (q.head_ + 1) % q.capacity_,
                          !.size_ = q.size_ - 1],
          frame |-> q.buffer_[q.head_],
          ok |-> TRUE]

\* The frames stored in the queue, oldest first.
QueueContents(q) ==
    [k \in 1..q.size_ |-> q.buffer_[(q.head_ + k - 1) % q.capacity_]]


(* ------------------- live capture: the camera thread ------------------ *)

\* The values the variables of the other specifications keep.
RingIdle == ret = FALSE /\ lastCall = "none" /\ ncalls = 0

\* cv::Mat with the given size and pixels (data is row-major, as Mat::data)
Mat(cols, rows, data) == [cols |-> cols, rows |-> rows, data |-> data]

CodecIdle ==
    /\ variant = "none" /\ img = Mat(0, 0, <<>>) /\ detections = <<>>
    /\ cstep = "idle" /\ result = <<>> /\ stream = <<>> /\ decoded = <<>>

HuffIdle ==
    /\ rleData = <<>> /\ compressed = <<>> /\ decompressed = <<>>
    /\ hstep = "idle" /\ hfault = {}

PipeIdle ==
    /\ running = TRUE /\ lockHolder = "none"
    /\ ppc = "idle" /\ pframe = EmptyMat /\ frame_count = 0 /\ nread = 0
    /\ ppred = FALSE /\ pnotified = FALSE
    /\ cpc = "idle" /\ cpred = FALSE /\ cnotified = FALSE
    /\ offered = <<>> /\ processed = <<>>

\* main(): running = true; thread camera_thread(camera_thread_func, source);
Init ==
    /\ running = TRUE
    /\ lockHolder = "none"
    /\ frame_queue = RingBufferNew(QueueCapacity)
    /\ ppc = "open" /\ pframe = EmptyMat /\ frame_count = 0 /\ nread = 0
    /\ ppred = FALSE /\ pnotified = FALSE
    /\ cpc = "loop" /\ cframe = EmptyMat /\ cpred = FALSE /\ cnotified = FALSE
    /\ offered = <<>> /\ pushed = <<>> /\ popped = <<>> /\ processed = <<>>
    /\ RingIdle
    /\ CodecIdle
    /\ HuffIdle

\* camera_thread_func: cap.open(...); if (!cap.isOpened()) return -1;
CameraOpen ==
    /\ ppc = "open"
    /\ \E opened \in BOOLEAN : ppc' = IF opened THEN "loop" ELSE "returned"
    /\ UNCHANGED <<running, lockHolder, pframe, frame_count, nread, ppred,
                   pnotified, cpc, cpred, cnotified, offered, processed,
                   nonPipeVars, queueVars>>

\* while (running)
CameraLoop ==
    /\ ppc = "loop"
    /\ ppc' = IF running THEN "read" ELSE "final"
    /\ UNCHANGED <<running, lockHolder, pframe, frame_count, nread, ppred,
                   pnotified, cpc, cpred, cnotified, offered, processed,
                   nonPipeVars, queueVars>>

\* A camera loop without "if (frame.empty()) continue;": an empty frame goes
\* on to the queue.
CameraRead_NoEmptyTest ==
    /\ ppc = "read"
    /\ \E outcome \in {"eof", "empty", "frame"} :
        CASE outcome = "eof" ->
                /\ pframe' = EmptyMat
                /\ ppc' = "final"
                /\ UNCHANGED <<nread, frame_count>>
          [] outcome = "empty" ->
                /\ pframe' = EmptyMat
                /\ IF frame_count % frame_skip # 0
                   THEN frame_count' = frame_count + 1 /\ ppc' = "loop"
                   ELSE frame_count' = frame_count /\ ppc' = "lock"
                /\ UNCHANGED nread
          [] outcome = "frame" ->
                /\ nread < MaxFrames
                /\ nread' = nread + 1
                /\ pframe' = <<nread + 1>>
                /\ IF frame_count % frame_skip # 0
                   THEN frame_count' = frame_count + 1 /\ ppc' = "loop"
                   ELSE frame_count' = frame_count /\ ppc' = "lock"
    /\ UNCHANGED <<running, lockHolder, ppred, pnotified, cpc, cpred,
                   cnotified, offered, processed, nonPipeVars, queueVars>>

\* if (!cap.read(frame)) break; if (frame.empty()) continue;
\* if (frame_count % frame_skip != 0) { frame_count++; continue; }
CameraRead ==
    /\ ppc = "read"
    /\ \E outcome \in {"eof", "empty", "frame"} :
        CASE outcome = "eof" ->
                /\ pframe' = EmptyMat
                /\ ppc' = "final"
                /\ UNCHANGED <<nread, frame_count>>
          [] outcome = "empty" ->
                /\ pframe' = EmptyMat
                /\ ppc' = "loop"
                /\ UNCHANGED <<nread, frame_count>>
          [] outcome = "frame" ->
                /\ nread < MaxFrames
                /\ nread' = nread + 1
                /\ pframe' = <<nread + 1>>
                /\ IF frame_count % frame_skip # 0
                   THEN frame_count' = frame_count + 1 /\ ppc' = "loop"
                   ELSE frame_count' = frame_count /\ ppc' = "lock"
    /\ UNCHANGED <<running, lockHolder, ppred, pnotified, cpc, cpred,
                   cnotified, offered, processed, nonPipeVars, queueVars>>

\* unique_lock<mutex> lock(camera_mutex);
CameraLock ==
    /\ ppc = "lock"
    /\ lockHolder = "none"
    /\ lockHolder' = "camera"
    /\ ppc' = "eval"
    /\ UNCHANGED <<running, pframe, frame_count, nread, ppred, pnotified,
                   cpc, cpred, cnotified, offered, processed, nonPipeVars,
                   queueVars>>

\* A camera thread that does not wait for space in the queue.
CameraWaitPredicate_NoBackpressure == TRUE

\* The wait predicate: []{ return !running || !frame_queue.full(); }
CameraWaitPredicate == ~running \/ ~RingFull(frame_queue)

\* queue_not_full.wait(lock, pred): evaluate the predicate under the lock
CameraEval ==
    /\ ppc = "eval"
    /\ ppred' = CameraWaitPredicate
    /\ ppc' = "wait"
    /\ UNCHANGED <<running, lockHolder, pframe, frame_count, nread,
                   pnotified, cpc, cpred, cnotified, offered, processed,
                   nonPipeVars, queueVars>>

\* queue_not_full.wait(lock, pred): return when the predicate held, else
\* release the mutex and block on the condition variable (one atomic step).
CameraWait ==
    /\ ppc = "wait"
    /\ IF ppred
       THEN ppc' = "check" /\ UNCHANGED <<lockHolder, pnotified>>
       ELSE ppc' = "blocked" /\ lockHolder' = "none" /\ pnotified' = FALSE
    /\ UNCHANGED <<running, pframe, frame_count, nread, ppred, cpc, cpred,
                   cnotified, offered, processed, nonPipeVars, queueVars>>

\* queue_not_full.wait: a notified waiter takes the mutex again and
\* re-evaluates the predicate.
CameraWake ==
    /\ ppc = "blocked"
    /\ pnotified
    /\ lockHolder = "none"
    /\ lockHolder' = "camera"
    /\ ppc' = "eval"
    /\ UNCHANGED <<running, pframe, frame_count, nread, ppred, pnotified,
                   cpc, cpred, cnotified, offered, processed, nonPipeVars,
                   queueVars>>

\* queue_not_full.wait: condition variables may wake without a notify.
CameraSpuriousWake ==
    /\ ppc = "blocked"
    /\ ~pnotified
    /\ lockHolder = "none"
    /\ lockHolder' = "camera"
    /\ ppc' = "eval"
    /\ UNCHANGED <<running, pframe, frame_count, nread, ppred, pnotified,
                   cpc, cpred, cnotified, offered, processed, nonPipeVars,
                   queueVars>>

\* if (!running) break;    (the unique_lock releases the mutex)
CameraCheck ==
    /\ ppc = "check"
    /\ IF ~running
       THEN ppc' = "final" /\ lockHolder' = "none"
       ELSE ppc' = "push" /\ UNCHANGED lockHolder
    /\ UNCHANGED <<running, pframe, frame_count, nread, ppred, pnotified,
                   cpc, cpred, cnotified, offered, processed, nonPipeVars,
                   queueVars>>

\* if (!frame_queue.push(std::move(frame))) cerr << ...;  lock.unlock();
CameraPush ==
    /\ ppc = "push"
    /\ LET r == RingPush(frame_queue, pframe) IN
        /\ frame_queue' = r.q
        /\ pframe' = r.frame
        /\ offered' = Append(offered, pframe)
        /\ pushed' = IF r.ok THEN Append(pushed, pframe) ELSE pushed
    /\ lockHolder' = "none"
    /\ ppc' = "notify"
    /\ UNCHANGED <<running, frame_count, nread, ppred, pnotified, cpc,
                   cpred, cnotified, processed, nonPipeVars, cframe, popped>>

\* frame_available.notify_one();  frame_count++;
CameraNotify ==
    /\ ppc = "notify"
    /\ cnotified' = IF cpc = "blocked" THEN TRUE ELSE cnotified
    /\ frame_count' = frame_count + 1
    /\ ppc' = "loop"
    /\ UNCHANGED <<running, lockHolder, pframe, nread, ppred, pnotified,
                   cpc, cpred, offered, processed, nonPipeVars, queueVars>>

\* after the loop: lock_guard<mutex> lock(camera_mutex);
CameraFinalLock ==
    /\ ppc = "final"
    /\ lockHolder = "none"
    /\ lockHolder' = "camera"
    /\ ppc' = "final_set"
    /\ UNCHANGED <<running, pframe, frame_count, nread, ppred, pnotified,
                   cpc, cpred, cnotified, offered, processed, nonPipeVars,
                   queueVars>>

\* running = false; frame_available.notify_all(); queue_not_full.notify_all();
\* (end of the lock_guard block); cap.release(); return 0;
CameraFinal ==
    /\ ppc = "final_set"
    /\ running' = FALSE
    /\ cnotified' = IF cpc = "blocked" THEN TRUE ELSE cnotified
    /\ lockHolder' = "none"
    /\ ppc' = "returned"
    /\ UNCHANGED <<pframe, frame_count, nread, ppred, pnotified, cpc, cpred,
                   offered, processed, nonPipeVars, queueVars>>

(* -------------------- live capture: the main thread ------------------- *)

\* while(running) { ... Mat frame;
MainLoop ==
    /\ cpc = "loop"
    /\ IF running
       THEN cpc' = "lock" /\ cframe' = EmptyMat
       ELSE cpc' = "shutdown" /\ UNCHANGED cframe
    /\ UNCHANGED <<running, lockHolder, ppc, pframe, frame_count, nread,
                   ppred, pnotified, cpred, cnotified, offered, processed,
                   nonPipeVars, frame_queue, pushed, popped>>

\* unique_lock<mutex> lock(camera_mutex);
MainLock ==
    /\ cpc = "lock"
    /\ lockHolder = "none"
    /\ lockHolder' = "main"
    /\ cpc' = "eval"
    /\ UNCHANGED <<running, ppc, pframe, frame_count, nread, ppred,
                   pnotified, cpred, cnotified, offered, processed, nonPipeVars,
                   queueVars>>

\* The wait predicate: []{ return !running || !frame_queue.empty(); }
MainWaitPredicate == ~running \/ ~RingEmpty(frame_queue)

\* frame_available.wait_for(lock, 50ms, pred): evaluate the predicate
MainEval ==
    /\ cpc = "eval"
    /\ cpred' = MainWaitPredicate
    /\ cpc' = "wait"
    /\ UNCHANGED <<running, lockHolder, ppc, pframe, frame_count, nread,
                   ppred, pnotified, cnotified, offered, processed, nonPipeVars,
                   queueVars>>

\* frame_available.wait_for: return when the predicate held, else release
\* the mutex and block until a notify or the timeout.
MainWait ==
    /\ cpc = "wait"
    /\ IF cpred
       THEN cpc' = "check" /\ UNCHANGED <<lockHolder, cnotified>>
       ELSE cpc' = "blocked" /\ lockHolder' = "none" /\ cnotified' = FALSE
    /\ UNCHANGED <<running, ppc, pframe, frame_count, nread, ppred,
                   pnotified, cpred, offered, processed, nonPipeVars, queueVars>>

\* frame_available.wait_for: a notified waiter takes the mutex again and
\* re-evaluates the predicate.
MainWake ==
    /\ cpc = "blocked"
    /\ cnotified
    /\ lockHolder = "none"
    /\ lockHolder' = "main"
    /\ cpc' = "eval"
    /\ UNCHANGED <<running, ppc, pframe, frame_count, nread, ppred,
                   pnotified, cpred, cnotified, offered, processed, nonPipeVars,
                   queueVars>>

\* A wait_for that returns after the timeout without taking the mutex again.
MainTimeout_NoRelock ==
    /\ cpc = "blocked"
    /\ cpc' = "check"
    /\ UNCHANGED <<running, lockHolder, ppc, pframe, frame_count, nread, ppred,
                   pnotified, cpred, cnotified, offered, processed, nonPipeVars,
                   queueVars>>

\* frame_available.wait_for: after 50 ms the waiter takes the mutex again and
\* wait_for returns (its result is not used).
MainTimeout ==
    /\ cpc = "blocked"
    /\ lockHolder = "none"
    /\ lockHolder' = "main"
    /\ cpc' = "check"
    /\ UNCHANGED <<running, ppc, pframe, frame_count, nread, ppred,
                   pnotified, cpred, cnotified, offered, processed, nonPipeVars,
                   queueVars>>

\* A dequeue block whose empty-queue continue leaves the mutex locked.
MainCheck_ContinueLocked ==
    /\ cpc = "check"
    /\ IF ~running /\ RingEmpty(frame_queue)
       THEN /\ cpc' = "shutdown" /\ lockHolder' = "none"
            /\ UNCHANGED <<frame_queue, cframe, popped>>
       ELSE IF RingEmpty(frame_queue)
       THEN /\ cpc' = "loop" /\ lockHolder' = lockHolder
            /\ UNCHANGED <<frame_queue, cframe, popped>>
       ELSE LET r == RingPop(frame_queue, cframe) IN
            /\ frame_queue' = r.q
            /\ cframe' = r.frame
            /\ popped' = IF r.ok THEN Append(popped, r.frame) ELSE popped
            /\ cpc' = IF r.ok THEN "notify" ELSE "loop"
            /\ lockHolder' = "none"
    /\ UNCHANGED <<running, ppc, pframe, frame_count, nread, ppred,
                   pnotified, cpred, cnotified, offered, processed, nonPipeVars,
                   pushed>>

\* if (!running && frame_queue.empty()) break;
\* if (frame_queue.empty()) continue;
\* if (!frame_queue.pop(frame)) continue;
\* lock.unlock();
MainCheck ==
    /\ cpc = "check"
    /\ lockHolder' = "none"
    /\ IF ~running /\ RingEmpty(frame_queue)
       THEN cpc' = "shutdown" /\ UNCHANGED <<frame_queue, cframe, popped>>
       ELSE IF RingEmpty(frame_queue)
       THEN cpc' = "loop" /\ UNCHANGED <<frame_queue, cframe, popped>>
       ELSE LET r == RingPop(frame_queue, cframe) IN
            /\ frame_queue' = r.q
            /\ cframe' = r.frame
            /\ popped' = IF r.ok THEN Append(popped, r.frame) ELSE popped
            /\ cpc' = IF r.ok THEN "notify" ELSE "loop"
    /\ UNCHANGED <<running, ppc, pframe, frame_count, nread, ppred,
                   pnotified, cpred, cnotified, offered, processed, nonPipeVars,
                   pushed>>

\* queue_not_full.notify_one();  if (frame.empty()) continue;
MainNotify ==
    /\ cpc = "notify"
    /\ pnotified' = IF ppc = "blocked" THEN TRUE ELSE pnotified
    /\ cpc' = IF cframe = EmptyMat THEN "loop" ELSE "process"
    /\ UNCHANGED <<running, lockHolder, ppc, pframe, frame_count, nread,
                   ppred, cpred, cnotified, offered, processed, nonPipeVars,
                   queueVars>>

\* A packet that is not cleared before it is filled: the bytes of pkt are
\* whatever the stack held.
ZeroPacket_NoMemset ==
    [frame_seq |-> 204, config |-> 204, width |-> 204, height |-> 204,
     balls |-> [k \in 1..MAX_BALLS |-> [x |-> 204, y |-> 204, r |-> 204]],
     rle_data |-> [k \in 1..RLE_DATA_MAX_BYTE |-> 204],
     reserved |-> [k \in 1..RESERVED_BYTE |-> 204]]

\* memset(&pkt, 0, sizeof(MqttPacket))
ZeroPacket ==
    [frame_seq |-> 0, config |-> 0, width |-> 0, height |-> 0,
     balls |-> [k \in 1..MAX_BALLS |-> [x |-> 0, y |-> 0, r |-> 0]],
     rle_data |-> [k \in 1..RLE_DATA_MAX_BYTE |-> 0],
     reserved |-> [k \in 1..RESERVED_BYTE |-> 0]]

\* The record of one pass of the try block of the consumer loop: process
\* clears the packet and never writes frame_seq, and the consumer loop does
\* not write it either; a pass that threw in process has no packet (-1).
ProcessedFrame(frame, outcome) ==
    [frame |-> frame, outcome |-> outcome,
     frame_seq |-> IF outcome = "throw" THEN -1 ELSE ZeroPacket.frame_seq]

\* A consumer loop without the catch: an exception leaves the loop.
MainProcess_NoCatch ==
    /\ cpc = "process"
    /\ \E outcome \in {"ok", "throw", "quit"} :
        /\ processed' = Append(processed, ProcessedFrame(cframe, outcome))
        /\ IF outcome = "quit"
           THEN running' = FALSE /\ cpc' = "shutdown"
           ELSE IF outcome = "throw"
           THEN running' = running /\ cpc' = "shutdown"
           ELSE running' = running /\ cpc' = "loop"
    /\ UNCHANGED <<lockHolder, ppc, pframe, frame_count, nread, ppred,
                   pnotified, cpred, cnotified, offered, nonPipeVars, queueVars>>

\* try { result = compressor.process(frame); ... int key = waitKey(1);
\*       if (key == 27 || key == 'q' || key == 'Q') { running = false; break; }
\* } catch (const exception& e) { cerr << ...; }   ... sleep_for(...)
MainProcess ==
    /\ cpc = "process"
    /\ \E outcome \in {"ok", "throw", "quit"} :
        /\ processed' = Append(processed, ProcessedFrame(cframe, outcome))
        /\ IF outcome = "quit"
           THEN running' = FALSE /\ cpc' = "shutdown"
           ELSE running' = running /\ cpc' = "loop"
    /\ UNCHANGED <<lockHolder, ppc, pframe, frame_count, nread, ppred,
                   pnotified, cpred, cnotified, offered, nonPipeVars, queueVars>>

\* after the loop: running = false;
MainShutdown ==
    /\ cpc = "shutdown"
    /\ running' = FALSE
    /\ cpc' = "shutdown_notify"
    /\ UNCHANGED <<lockHolder, ppc, pframe, frame_count, nread, ppred,
                   pnotified, cpred, cnotified, offered, processed, nonPipeVars,
                   queueVars>>

\* A shutdown that broadcasts frame_available only and leaves queue_not_full
\* unsignalled.
MainShutdownNotify_NoNotify ==
    /\ cpc = "shutdown_notify"
    /\ lockHolder = "none"
    /\ cpc' = "join"
    /\ UNCHANGED <<running, lockHolder, ppc, pframe, frame_count, nread,
                   ppred, pnotified, cpred, cnotified, offered, processed,
                   nonPipeVars, queueVars>>

\* { lock_guard<mutex> lock(camera_mutex);
\*   frame_available.notify_all(); queue_not_full.notify_all(); }
MainShutdownNotify ==
    /\ cpc = "shutdown_notify"
    /\ lockHolder = "none"
    /\ pnotified' = IF ppc = "blocked" THEN TRUE ELSE pnotified
    /\ cpc' = "join"
    /\ UNCHANGED <<running, lockHolder, ppc, pframe, frame_count, nread,
                   ppred, cpred, cnotified, offered, processed, nonPipeVars,
                   queueVars>>

\* if (camera_thread.joinable()) camera_thread.join();
MainJoin ==
    /\ cpc = "join"
    /\ ppc = "returned"
    /\ cpc' = "done"
    /\ UNCHANGED <<running, lockHolder, ppc, pframe, frame_count, nread,
                   ppred, pnotified, cpred, cnotified, offered, processed,
                   nonPipeVars, queueVars>>

CameraStep ==
    \/ CameraOpen \/ CameraLoop \/ CameraRead \/ CameraLock \/ CameraEval
    \/ CameraWait \/ CameraWake \/ CameraCheck \/ CameraPush
    \/ CameraNotify \/ CameraFinalLock \/ CameraFinal

MainStep ==
    \/ MainLoop \/ MainLock \/ MainEval \/ MainWait \/ MainWake
    \/ MainTimeout \/ MainCheck \/ MainNotify \/ MainProcess
    \/ MainShutdown \/ MainShutdownNotify \/ MainJoin

Next == CameraStep \/ CameraSpuriousWake \/ MainStep

Spec == Init /\ [][Next]_vars

\* Both threads are scheduled again and again, cap.read and process return,
\* and the 50 ms timeout expires; a spurious wake-up is never promised.
FairSpec == Spec /\ WF_vars(CameraStep) /\ WF_vars(MainStep)

(* ------------------------ live capture: claims ------------------------ *)

\* C1 (as claimed): when the main thread has left its consumer loop, the frame
\* queue is empty, so that every frame push accepted was handed to process.
C1_QueueDrainedAtExit ==
    cpc \in {"shutdown", "shutdown_notify", "join", "done"}
        => RingEmpty(frame_queue)

\* C7: while running is true, the frames the camera thread handed to push are
\* exactly the frames already popped followed by the frames now in the queue,
\* in order: none lost, none overwritten, none popped twice.
C7_NoLossNoDuplication ==
    running => offered = popped \o QueueContents(frame_queue)

\* C7 witness: the camera thread is blocked on a full queue (backpressure)
\* after frames have already gone through the queue, and nobody cancelled.
C7_Witness ==
    /\ running
    /\ ppc = "blocked"
    /\ RingFull(frame_queue)
    /\ Len(popped) >= 1

\* C9: once running is false, the main thread eventually gets past join, which
\* needs the camera thread to have left its wait and returned.
C9_CancellationWakesAll == (~running) ~> (cpc = "done" /\ ppc = "returned")

\* C9 witness: running is already false while the camera thread is blocked in
\* the queue_not_full wait on a full queue and no notify has reached it yet.
C9_Witness ==
    /\ ~running
    /\ ppc = "blocked"
    /\ ~pnotified
    /\ RingFull(frame_queue)

(* ------------------ the queue called one call at a time --------------- *)

\* RingBuffer q(n), for each capacity up to MaxCapacity.
InitRing ==
    /\ \E n \in 1..MaxCapacity : frame_queue = RingBufferNew(n)
    /\ cframe = EmptyMat /\ pushed = <<>> /\ popped = <<>>
    /\ RingIdle
    /\ PipeIdle
    /\ CodecIdle
    /\ HuffIdle

\* q.push(std::move(frame)) with a fresh frame
RingPushCall ==
    /\ ncalls < MaxCalls
    /\ LET r == RingPush(frame_queue, <<ncalls + 1>>) IN
        /\ frame_queue' = r.q
        /\ ret' = r.ok
        /\ pushed' = IF r.ok THEN Append(pushed, <<ncalls + 1>>) ELSE pushed
    /\ lastCall' = "push"
    /\ ncalls' = ncalls + 1
    /\ UNCHANGED <<nonRingVars, cframe, popped>>

\* q.pop(frame), frame being the caller's variable
RingPopCall ==
    /\ ncalls < MaxCalls
    /\ LET r == RingPop(frame_queue, cframe) IN
        /\ frame_queue' = r.q
        /\ cframe' = r.frame
        /\ ret' = r.ok
        /\ popped' = IF r.ok THEN Append(popped, r.frame) ELSE popped
    /\ lastCall' = "pop"
    /\ ncalls' = ncalls + 1
    /\ UNCHANGED <<nonRingVars, pushed>>

NextRing == RingPushCall \/ RingPopCall

SpecRing == InitRing /\ [][NextRing]_vars

\* C6: whatever the capacity and the calls made, the frames pop returned are
\* the first frames push accepted, in the order they were accepted, and the
\* frames not yet popped are the ones stored in the queue.
C6_FIFO ==
    /\ Len(popped) <= Len(pushed)
    /\ popped = SubSeq(pushed, 1, Len(popped))
    /\ pushed = popped \o QueueContents(frame_queue)

\* C6 witness: a queue of capacity at least 2 whose head_ has gone around
\* more than twice.
C6_Witness ==
    /\ frame_queue.capacity_ >= 2
    /\ Len(popped) > 2 * frame_queue.capacity_

\* C8: a push on a full queue returns false and changes nothing of the queue;
\* a pop on an empty queue returns false and changes neither the queue nor the
\* caller's frame; and both calls can always be made (neither waits).
C8_FullAndEmptyRefused ==
    /\ [](ncalls < MaxCalls => (ENABLED RingPushCall /\ ENABLED RingPopCall))
    /\ [][ /\ (lastCall' = "push" /\ frame_queue.size_ = frame_queue.capacity_)
                => (ret' = FALSE /\ frame_queue' = frame_queue)
           /\ (lastCall' = "pop" /\ frame_queue.size_ = 0)
                => (ret' = FALSE /\ frame_queue' = frame_queue
                    /\ cframe' = cframe) ]_vars

\* C8 witness: a pop was just refused on an empty queue whose indices have
\* moved, while the caller's frame still holds the frame of an earlier pop.
C8_Witness ==
    /\ lastCall = "pop" /\ ret = FALSE
    /\ frame_queue.size_ = 0
    /\ frame_queue.head_ # 0
    /\ cframe # EmptyMat

(* ------------------- byte-pair run-length codec ----------------------- *)

\* (uint8_t) conversion
U8(x) == x % 256

\* A loop run for at most n passes: Step is one pass over the loop's
\* variables and returns them unchanged once the loop condition fails.
RECURSIVE Iterate(_, _, _)
Iterate(Step(_), s, n) ==
    IF n = 0 THEN s
    ELSE IF n = 1 THEN Step(s)
    ELSE LET mid == Iterate(Step, s, n \div 2)
         IN IF mid = mid THEN Iterate(Step, mid, n - (n \div 2)) ELSE s

\* A level test that takes every cell other than 0 as white.
PairLevel_NonZero(pixel) == IF pixel > 0 THEN 1 ELSE 0

\* compressRLE (search.cpp): (ptr[i] > 128) ? 1 : 0
PairLevel(pixel) == IF pixel > 128 THEN 1 ELSE 0

\* The inner while of compressRLE (search.cpp) without the test count < 255:
\* the uint8_t count wraps.
PairCountBody_NoCap(ptr, total, i, val, buf_idx, max_len, count) ==
    IF /\ i + count < total
       /\ PairLevel(ptr[i + count + 1]) = val
       /\ buf_idx + 1 < max_len
    THEN U8(count + 1)
    ELSE count

\* compressRLE (search.cpp), one test-and-increment of the inner while:
\*   while (i + count < total && level(ptr[i + count]) == val &&
\*          count < 255 && buf_idx + 1 < max_len) count++;
PairCountBody(ptr, total, i, val, buf_idx, max_len, count) ==
    IF /\ i + count < total
       /\ PairLevel(ptr[i + count + 1]) = val
       /\ count < PAIR_MAX_COUNT
       /\ buf_idx + 1 < max_len
    THEN U8(count + 1)
    ELSE count

\* compressRLE (search.cpp), one pass of the for loop on (i, out_buf so far):
\*   for (int i = 0; i < total && buf_idx + 1 < max_len; ) { ... }
PairBody(ptr, total, max_len, st) ==
    IF st.i < total /\ Len(st.out) + 1 < max_len
    THEN LET val == PairLevel(ptr[st.i + 1])
             Inner(c) == PairCountBody(ptr, total, st.i, val, Len(st.out),
                                       max_len, c)
             passes == IF total - st.i < PAIR_MAX_COUNT
                       THEN total - st.i ELSE PAIR_MAX_COUNT
             count == Iterate(Inner, 1, passes)
         IN [i |-> st.i + count, out |-> st.out \o <<count, val>>]
    ELSE st

\* int HeroCamCompressor::compressRLE(const Mat& img, uint8_t* out_buf,
\* int max_len): the bytes written; the return value is their number.
CompressRLE(m, max_len) ==
    LET total == m.rows * m.cols
        Body(st) == PairBody(m.data, total, max_len, st)
    IN Iterate(Body, [i |-> 0, out |-> <<>>], total).out

\* decodeRLE (search.cpp), one pass of the loop over the pairs whose inner
\* loop tests only j < count.
PairDecodeBody_NoClamp(rle_data, rle_len, totalPixels, st) ==
    IF st.i + 1 < rle_len
    THEN LET count == rle_data[st.i + 1]
             val == rle_data[st.i + 2]
             pixel_val == IF val = 1 THEN 255 ELSE 0
         IN [i |-> st.i + 2,
             pixels |-> st.pixels \o [j \in 1..count |-> pixel_val]]
    ELSE st

\* decodeRLE (search.cpp), one pass of the loop over the pairs on
\* (i, pixels written so far):
\*   for (int i = 0; i + 1 < rle_len; i += 2) { ... }
PairDecodeBody(rle_data, rle_len, totalPixels, st) ==
    IF st.i + 1 < rle_len
    THEN LET count == rle_data[st.i + 1]
             val == rle_data[st.i + 2]
             pixel_val == IF val = 1 THEN 255 ELSE 0
             room == totalPixels - Len(st.pixels)
             n == IF count < room THEN count ELSE room
         IN [i |-> st.i + 2,
             pixels |-> st.pixels \o [j \in 1..n |-> pixel_val]]
    ELSE st

\* decodeRLE (search.cpp): the values stored through ptr[pixelIdx++], in
\* the order of the stores; the k-th store is at index k - 1.
DecodeRLEStores(rle_data, rle_len, cols, rows) ==
    LET Body(st) == PairDecodeBody(rle_data, rle_len, cols * rows, st)
    IN IF rle_len <= 0 THEN <<>>
       ELSE Iterate(Body, [i |-> 0, pixels |-> <<>>], rle_len \div 2).pixels

\* A decoder whose Mat does not start as zeros: the cells no run covers
\* stay white.
DecodeRLE_NoZeros(rle_data, rle_len, cols, rows) ==
    LET totalPixels == cols * rows
        Body(st) == PairDecodeBody(rle_data, rle_len, totalPixels, st)
        written == IF rle_len <= 0 THEN <<>>
                   ELSE Iterate(Body, [i |-> 0, pixels |-> <<>>],
                                rle_len \div 2).pixels
    IN [k \in 1..totalPixels |->
            IF k <= Len(written) THEN written[k] ELSE 255]

\* A decoder whose loop runs while i < rle_len: a last byte without a
\* partner is taken as the count of a white run.
DecodeRLE_LoneByte(rle_data, rle_len, cols, rows) ==
    LET totalPixels == cols * rows
        Body(st) ==
            IF st.i < rle_len
            THEN LET count == rle_data[st.i + 1]
                     val == IF st.i + 1 < rle_len THEN rle_data[st.i + 2]
                            ELSE 1
                     pixel_val == IF val = 1 THEN 255 ELSE 0
                     room == totalPixels - Len(st.pixels)
                     n == IF count < room THEN count ELSE room
                 IN [i |-> st.i + 2,
                     pixels |-> st.pixels \o [j \in 1..n |-> pixel_val]]
            ELSE st
        written == IF rle_len <= 0 THEN <<>>
                   ELSE Iterate(Body, [i |-> 0, pixels |-> <<>>],
                                (rle_len + 1) \div 2).pixels
    IN [k \in 1..totalPixels |->
            IF k <= Len(written) THEN written[k] ELSE 0]

\* Mat decodeRLE(const uint8_t* rle_data, int rle_len, Size sz): the pixels
\* of the returned Mat, which starts as Mat::zeros(sz).
DecodeRLE(rle_data, rle_len, cols, rows) ==
    LET totalPixels == cols * rows
        Body(st) == PairDecodeBody(rle_data, rle_len, totalPixels, st)
        written == IF rle_len <= 0 THEN <<>>
                   ELSE Iterate(Body, [i |-> 0, pixels |-> <<>>],
                                rle_len \div 2).pixels
    IN [k \in 1..totalPixels |->
            IF k <= Len(written) THEN written[k] ELSE 0]

(* --------------------------- the packet ------------------------------- *)

\* struct MqttPacket under #pragma pack(1): the bytes of the object, the
\* members in declaration order with no padding.
RECURSIVE BallBytes(_)
BallBytes(balls) ==
    IF balls = <<>> THEN <<>>
    ELSE <<Head(balls).x, Head(balls).y, Head(balls).r>>
         \o BallBytes(Tail(balls))

\* A packet struct that lacks the reserved tail.
PacketBytes_NoReserved(p) ==
    <<p.frame_seq, p.config, p.width, p.height>>
    \o BallBytes(p.balls) \o p.rle_data

PacketBytes(p) ==
    <<p.frame_seq, p.config, p.width, p.height>>
    \o BallBytes(p.balls) \o p.rle_data \o p.reserved

\* process: the loop over the accepted detections; d.x, d.y, d.r are the
\* values cvRound returned for the detection.
PacketBalls(dets) ==
    [k \in 1..MAX_BALLS |->
        IF k <= Len(dets)
        THEN [x |-> U8(dets[k].x), y |-> U8(dets[k].y), r |-> U8(dets[k].r)]
        ELSE [x |-> 0, y |-> 0, r |-> 0]]

\* ProcessResult HeroCamCompressor::process(Mat& input), from the thresholded
\* raster `binary` and the accepted detections on. binary has been resized to
\* TARGET_SIZE, so pkt.width and pkt.height are its cols and rows; the build
\* has TARGET_SIZE(120, 80), and the rasters tried include other sizes.
Process(binary, dets) ==
    LET out == CompressRLE(binary, RLE_DATA_MAX_BYTE)
        rle_len == Len(out)
        validBalls == IF Len(dets) < MAX_BALLS THEN Len(dets) ELSE MAX_BALLS
        pkt == [ZeroPacket EXCEPT
                  !.balls = PacketBalls(dets),
                  !.config = IF rle_len >= RLE_DATA_MAX_BYTE THEN 3 ELSE 1,
                  !.width = U8(binary.cols),
                  !.height = U8(binary.rows),
                  !.rle_data = [k \in 1..RLE_DATA_MAX_BYTE |->
                                  IF k <= rle_len THEN out[k] ELSE 0]]
    IN [finalBinary |-> binary, packet |-> pkt,
        rle_used_byte |-> rle_len, ballCount |-> validBalls]

(* -------------------- packed run-length codec ------------------------- *)

\* A packed encoder whose run cap is one too large: a run of 64 is written
\* as (64 << 2) | level, which does not fit the byte.
PackedBody_Cap64(p, totalPixels, st) ==
    IF st.i < totalPixels
    THEN LET nextVal == p[st.i + 1] IN
         IF nextVal = st.currentVal /\ st.count < PACKED_MAX_COUNT + 1
         THEN [st EXCEPT !.i = st.i + 1, !.count = st.count + 1]
         ELSE [i |-> st.i + 1, count |-> 1, currentVal |-> nextVal,
               buffer |-> Append(st.buffer,
                                 U8(st.count * 4 + (st.currentVal % 4)))]
    ELSE st

\* compressRLE (hero_image_transmission.h), one pass of the for loop on
\* (i, count, currentVal, buffer):
\*   if (nextVal == currentVal && count < 63) count++;
\*   else { buffer.push_back((count << 2) | (currentVal & 0x03)); ... }
PackedBody(p, totalPixels, st) ==
    IF st.i < totalPixels
    THEN LET nextVal == p[st.i + 1] IN
         IF nextVal = st.currentVal /\ st.count < PACKED_MAX_COUNT
         THEN [st EXCEPT !.i = st.i + 1, !.count = st.count + 1]
         ELSE [i |-> st.i + 1, count |-> 1, currentVal |-> nextVal,
               buffer |-> Append(st.buffer,
                                 U8(st.count * 4 + (st.currentVal % 4)))]
    ELSE st

\* vector<uint8_t> HeroCamCompressor::compressRLE(const Mat &img)
CompressRLEPacked(m) ==
    IF m.rows * m.cols = 0 THEN <<>>
    ELSE LET totalPixels == m.rows * m.cols
             Body(st) == PackedBody(m.data, totalPixels, st)
             last == Iterate(Body, [i |-> 1, count |-> 1,
                                    currentVal |-> m.data[1],
                                    buffer |-> <<>>], totalPixels)
         IN Append(last.buffer, U8(last.count * 4 + (last.currentVal % 4)))

\* decodeRLE (hero_image_transmission.h): the gray value shown for a level
GrayVal(val) ==
    IF val = 3 THEN 255
    ELSE IF val = 2 THEN 200
    ELSE IF val = 1 THEN 100
    ELSE 0

\* decodeRLE (hero_image_transmission.h), one pass of the loop over the bytes
\* on (k, pixels written so far)
PackedDecodeBody(bytes, totalPixels, st) ==
    IF st.k <= Len(bytes)
    THEN LET count == bytes[st.k] \div 4
             val == bytes[st.k] % 4
             room == totalPixels - Len(st.pixels)
             n == IF count < room THEN count ELSE room
         IN [k |-> st.k + 1,
             pixels |-> st.pixels \o [j \in 1..n |-> GrayVal(val)]]
    ELSE st

\* decodeRLE (hero_image_transmission.h): the values stored through
\* ptr[pixelIdx++], in the order of the stores.
DecodeRLEPackedStores(bytes, cols, rows) ==
    LET Body(st) == PackedDecodeBody(bytes, cols * rows, st)
    IN Iterate(Body, [k |-> 1, pixels |-> <<>>], Len(bytes)).pixels

\* cv::Mat decodeRLE(const std::vector<uint8_t> &stream, cv::Size sz)
DecodeRLEPacked(bytes, cols, rows) ==
    LET totalPixels == cols * rows
        Body(st) == PackedDecodeBody(bytes, totalPixels, st)
        written == Iterate(Body, [k |-> 1, pixels |-> <<>>],
                           Len(bytes)).pixels
    IN [k \in 1..totalPixels |->
            IF k <= Len(written) THEN written[k] ELSE 0]

(* --------------- the codecs and the packet: specification ------------- *)

\* Sizes of the rasters tried with every content.
SmallShapes ==
    {sh \in (1..MaxCells) \X (0..MaxCells) : sh[1] * sh[2] <= MaxCells}

\* Sizes and contents of the long rasters: runs longer than the caps and more
\* runs than the payload holds.
PairShapes == {<<137, 1>>, <<69, 2>>, <<255, 1>>, <<128, 2>>, <<140, 2>>,
               <<100, 3>>, <<120, 80>>}

PackedShapes == {<<63, 1>>, <<64, 1>>, <<127, 1>>, <<100, 3>>, <<160, 112>>}

PatternKinds == {"flat", "stripes", "mixed"}

Pattern(kind, n, lo, hi) ==
    [i \in 1..n |->
        CASE kind = "flat" -> hi
          [] kind = "stripes" -> IF i % 2 = 1 THEN lo ELSE hi
          [] kind = "mixed" -> IF 2 * i <= n \/ i % 2 = 1 THEN hi ELSE lo]

\* The rasters given to the byte-pair encoder: threshold(resized, binary,
\* 128, 255, THRESH_BINARY) leaves only 0 and 255.
PairInputs ==
    {Mat(sh[1], sh[2], d) :
        sh \in SmallShapes, d \in UNION {[1..n -> {0, 255}] : n \in 0..MaxCells}}
    \cup {Mat(sh[1], sh[2], Pattern(k, sh[1] * sh[2], 0, 255)) :
            sh \in PairShapes, k \in PatternKinds}

\* Rasters that are not thresholded, given to compressRLE (search.cpp)
\* directly: cells around its own threshold of 128, and the levels 0, 0, 0, 1
\* as cells.
GrayInputs ==
    {Mat(n, 1, d) : n \in 1..2, d \in UNION {[1..m -> {0, 1, 128, 129, 255}] :
                                             m \in 1..2}}
    \cup {Mat(4, 1, <<0, 0, 0, 1>>)}

\* threshold(resized, binary, 128, 255, THRESH_BINARY) made the raster
Thresholded(m) == {k \in 1..Len(m.data) : m.data[k] \notin {0, 255}} = {}

\* The rasters given to the packed encoder: finalMap holds levels 0..3.
PackedInputs ==
    {Mat(sh[1], sh[2], d) :
        sh \in SmallShapes, d \in UNION {[1..n -> 0..3] : n \in 0..MaxCells}}
    \cup {Mat(sh[1], sh[2], Pattern(k, sh[1] * sh[2], lh[1], lh[2])) :
            sh \in PackedShapes, k \in PatternKinds,
            lh \in {<<0, 3>>, <<1, 2>>, <<0, 0>>}}

\* The bytes of the streams handed to the decoders that no encoder wrote:
\* as pairs, counts 0, 1, 5 and 255 with values 0, 1 and others; as packed
\* bytes, counts 0, 1 and 63 with levels 0, 1 and 3.
StreamBytes == {0, 1, 5, 255}

ReceivedStreams == UNION {[1..n -> StreamBytes] : n \in 0..MaxStream}

\* The k-th accepted detection, as cvRound produced it; the first is the
\* detection (12, 40, 3).
DetectionAt(k) == [x |-> 12 + 100 * (k - 1), y |-> 40 * k, r |-> 3 * k]

InitCodec ==
    /\ \/ /\ \/ /\ variant = "pair"
                /\ img \in {m \in PairInputs : Len(m.data) = m.cols * m.rows}
                /\ \E n \in 0..MaxDetections :
                      /\ detections = [k \in 1..n |-> DetectionAt(k)]
                      /\ (img.cols * img.rows > MaxCells) => (n = MaxDetections)
             \/ /\ variant = "pair"
                /\ img \in {m \in GrayInputs : Len(m.data) = m.cols * m.rows}
                /\ detections = <<>>
             \/ /\ variant = "packed"
                /\ img \in {m \in PackedInputs : Len(m.data) = m.cols * m.rows}
                /\ detections = <<>>
          /\ cstep = "input" /\ stream = <<>>
       \/ /\ variant \in {"pair", "packed"}
          /\ \E sh \in SmallShapes :
                img = Mat(sh[1], sh[2], [k \in 1..(sh[1] * sh[2]) |-> 0])
          /\ detections = <<>>
          /\ cstep = "received" /\ stream \in ReceivedStreams
    /\ result = <<>> /\ decoded = <<>>
    /\ RingIdle /\ PipeIdle /\ HuffIdle
    /\ frame_queue = RingBufferNew(0) /\ cframe = EmptyMat
    /\ pushed = <<>> /\ popped = <<>>

\* result = compressor.process(frame);
CodecProcess ==
    /\ variant = "pair" /\ cstep = "input"
    /\ Thresholded(img)
    /\ result' = Process(img, detections)
    /\ stream' = SubSeq(result'.packet.rle_data, 1, result'.rle_used_byte)
    /\ cstep' = "encoded"
    /\ UNCHANGED <<pipeVars, ringVars, queueVars, huffVars, variant, img,
                   detections,
                   decoded>>

\* int n = compressRLE(img, out_buf, RLE_DATA_MAX_BYTE), called on its own
CodecEncodePair ==
    /\ variant = "pair" /\ cstep = "input"
    /\ stream' = CompressRLE(img, RLE_DATA_MAX_BYTE)
    /\ cstep' = "stream"
    /\ UNCHANGED <<pipeVars, ringVars, queueVars, huffVars, variant, img,
                   detections, result, decoded>>

\* decodeRLE given the bytes compressRLE wrote and their number
CodecDecodeStream ==
    /\ variant = "pair" /\ cstep = "encoded"
    /\ decoded' = DecodeRLE(stream, Len(stream), img.cols, img.rows)
    /\ cstep' = "decoded"
    /\ UNCHANGED <<pipeVars, ringVars, queueVars, huffVars, variant, img,
                   detections,
                   result, stream>>

\* Mat decoded_small = decodeRLE(result.packet.rle_data, RLE_DATA_MAX_BYTE,
\*                               TARGET_SIZE);
CodecDecodePayload ==
    /\ variant = "pair" /\ cstep = "encoded"
    /\ decoded' = DecodeRLE(result.packet.rle_data, RLE_DATA_MAX_BYTE,
                            result.packet.width, result.packet.height)
    /\ cstep' = "displayed"
    /\ UNCHANGED <<pipeVars, ringVars, queueVars, huffVars, variant, img,
                   detections,
                   result, stream>>

\* vector<uint8_t> rleData = compressRLE(finalMap);
CodecEncodePacked ==
    /\ variant = "packed" /\ cstep = "input"
    /\ stream' = CompressRLEPacked(img)
    /\ cstep' = "encoded"
    /\ UNCHANGED <<pipeVars, ringVars, queueVars, huffVars, variant, img,
                   detections,
                   result, decoded>>

\* return decodeRLE(rleData, sz);
CodecDecodePacked ==
    /\ variant = "packed" /\ cstep = "encoded"
    /\ decoded' = DecodeRLEPacked(stream, img.cols, img.rows)
    /\ cstep' = "decoded"
    /\ UNCHANGED <<pipeVars, ringVars, queueVars, huffVars, variant, img,
                   detections,
                   result, stream>>

\* decodeRLE(rle_data, rle_len, sz) on bytes that came from elsewhere
CodecDecodeReceived ==
    /\ variant = "pair" /\ cstep = "received"
    /\ decoded' = DecodeRLE(stream, Len(stream), img.cols, img.rows)
    /\ cstep' = "laid out"
    /\ UNCHANGED <<pipeVars, ringVars, queueVars, huffVars, variant, img,
                   detections, result, stream>>

\* decodeRLE(stream, sz) on bytes that came from elsewhere
CodecDecodeReceivedPacked ==
    /\ variant = "packed" /\ cstep = "received"
    /\ decoded' = DecodeRLEPacked(stream, img.cols, img.rows)
    /\ cstep' = "laid out"
    /\ UNCHANGED <<pipeVars, ringVars, queueVars, huffVars, variant, img,
                   detections, result, stream>>

NextCodec ==
    \/ CodecProcess \/ CodecEncodePair
    \/ CodecDecodeStream \/ CodecDecodePayload
    \/ CodecEncodePacked \/ CodecDecodePacked
    \/ CodecDecodeReceived \/ CodecDecodeReceivedPacked

SpecCodec == InitCodec /\ [][NextCodec]_vars

(* ------------------ the codecs and the packet: claims ----------------- *)

\* The cells the runs of a byte-pair stream cover: the sum of its counts.
CoveredCells(bytes) ==
    LET Add(st) == [k |-> st.k + 2, sum |-> st.sum + bytes[st.k]]
    IN Iterate(Add, [k |-> 1, sum |-> 0], Len(bytes) \div 2).sum

\* The number of runs of a raster when no run may be longer than cap: a cell
\* starts a run when it differs from the cell before it or the run before it
\* has reached cap cells.
NumRuns(cells, cap) ==
    LET Count(st) ==
            LET new == \/ st.k = 1
                       \/ cells[st.k] # cells[IF st.k = 1 THEN 1 ELSE st.k - 1]
                       \/ st.len = cap
            IN [k |-> st.k + 1,
                len |-> IF new THEN 1 ELSE st.len + 1,
                runs |-> IF new THEN st.runs + 1 ELSE st.runs]
    IN Iterate(Count, [k |-> 1, len |-> 0, runs |-> 0], Len(cells)).runs

\* The run-length stream of the raster fits the payload budget.
FitsBudget ==
    IF variant = "pair"
    THEN 2 * NumRuns(img.data, PAIR_MAX_COUNT) <= RLE_DATA_MAX_BYTE
    ELSE TRUE

\* C2 (as claimed): in the packet process returns, flags bit 1 is set exactly
\* when the runs compressRLE wrote cover fewer than width*height cells.
C2_TruncationFlagged ==
    (variant = "pair" /\ cstep = "encoded") =>
        (((result.packet.config \div 2) % 2 = 1)
            <=> (CoveredCells(stream) < img.cols * img.rows))

\* C5 (as claimed): for a raster whose stream fits the budget, decoding what
\* the encoder produced gives back the raster, for both codecs.
C5_RoundTripIdentity ==
    (cstep = "decoded" /\ FitsBudget) => decoded = img.data

\* C5 (amended): for a raster whose stream fits the budget, decoding what the
\* encoder produced gives the raster in the decoder's pixel values: for the
\* byte-pair codec the thresholded raster itself (cells 0 and 255), for the
\* packed codec each level 0, 1, 2, 3 shown as gray 0, 100, 200, 255.
C5_RoundTripShown ==
    (cstep = "decoded" /\ FitsBudget) =>
        decoded = [k \in 1..(img.cols * img.rows) |->
                      IF variant = "pair" THEN img.data[k]
                      ELSE CASE img.data[k] = 0 -> 0
                             [] img.data[k] = 1 -> 100
                             [] img.data[k] = 2 -> 200
                             [] img.data[k] = 3 -> 255]

\* C5 witness: a packed raster with a stretch longer than the cap of 63 and
\* with cells of level 2 has been encoded and decoded.
C5_Witness ==
    /\ variant = "packed" /\ cstep = "decoded"
    /\ Len(stream) < NumRuns(img.data, 1)
    /\ NumRuns(img.data, PACKED_MAX_COUNT) > NumRuns(img.data, 1000)
    /\ \E k \in 1..Len(img.data) : img.data[k] = 2

\* C10: the bytes of every packet process returns are 300, with sequence,
\* flags, width and height at offsets 0..3, the four (x, y, r) triples at
\* 4..15, the 275 payload bytes at 16..290 and the 9 reserved bytes at
\* 291..299; and 16 + 275 + 9 = 300.
C10_PacketLayout ==
    (variant = "pair" /\ cstep \in {"encoded", "decoded", "displayed"}) =>
        LET p == result.packet
            b == PacketBytes(p)
        IN /\ Len(b) = 300
           /\ b[0 + 1] = p.frame_seq
           /\ b[1 + 1] = p.config
           /\ b[2 + 1] = p.width
           /\ b[3 + 1] = p.height
           /\ \A k \in 0..3 :
                /\ b[4 + 3 * k + 1] = p.balls[k + 1].x
                /\ b[4 + 3 * k + 2] = p.balls[k + 1].y
                /\ b[4 + 3 * k + 3] = p.balls[k + 1].r
           /\ Len(p.rle_data) = 275
           /\ \A j \in 0..274 : b[16 + j + 1] = p.rle_data[j + 1]
           /\ Len(p.reserved) = 9
           /\ \A j \in 0..8 : b[291 + j + 1] = p.reserved[j + 1]
           /\ HEADER_BYTE = 16 /\ RLE_DATA_MAX_BYTE = 275 /\ RESERVED_BYTE = 9
           /\ HEADER_BYTE + RLE_DATA_MAX_BYTE + RESERVED_BYTE
                = TOTAL_PACKET_BYTE
           /\ TOTAL_PACKET_BYTE = 300

\* C10 witness: a packet with four detections, a non-empty payload and
\* different width and height.
C10_Witness ==
    /\ variant = "pair" /\ cstep = "encoded"
    /\ result.ballCount = 4
    /\ result.rle_used_byte > 0
    /\ result.packet.width # result.packet.height
    /\ result.packet.balls[4].x # 0

(* --------------------------- Huffman stage ---------------------------- *)

\* nullptr, and make_shared<HuffmanNode>(v, f): value is -1 in an inner node.
NullNode == [value |-> -2, freq |-> 0]

HuffmanNode(v, f) ==
    [value |-> v, freq |-> f, left |-> NullNode, right |-> NullNode]

\* HuffmanCompare: a->freq > b->freq
HuffmanCompare(a, b) == a.freq > b.freq

\* The four push_back of a uint32_t, most significant byte first.
BE32(x) ==
    <<(x \div 16777216) % 256, (x \div 65536) % 256, (x \div 256) % 256,
      x % 256>>

\* The keys of a std::map<uint8_t, _> in iteration order (ascending).
MapKeys(S) ==
    [k \in 1..Cardinality(S) |->
        CHOOSE s \in S : Cardinality({t \in S : t < s}) = k - 1]

\* map<uint8_t, int> freqMap; for (uint8_t byte : rleData) freqMap[byte]++;
FreqMap(data) ==
    [s \in {data[k] : k \in 1..Len(data)} |->
        Cardinality({k \in 1..Len(data) : data[k] = s})]

\* pq.push(node): push_back, then std::push_heap (libstdc++ __push_heap),
\* the heap held in a vector indexed from 0.
RECURSIVE PushHeap(_, _, _, _)
PushHeap(h, holeIndex, topIndex, value) ==
    IF holeIndex > topIndex
       /\ HuffmanCompare(h[((holeIndex - 1) \div 2) + 1], value)
    THEN PushHeap([h EXCEPT ![holeIndex + 1] = h[((holeIndex - 1) \div 2) + 1]],
                  (holeIndex - 1) \div 2, topIndex, value)
    ELSE [h EXCEPT ![holeIndex + 1] = value]

PqPush(h, node) == PushHeap(Append(h, node), Len(h), 0, node)

\* std::pop_heap (libstdc++ __adjust_heap): the hole sinks along the
\* children the comparison prefers, then the last element is pushed into it.
RECURSIVE AdjustHeap(_, _, _, _, _)
AdjustHeap(h, holeIndex, secondChild, len, value) ==
    IF secondChild < (len - 1) \div 2
    THEN LET c  == 2 * (secondChild + 1)
             c2 == IF HuffmanCompare(h[c + 1], h[c]) THEN c - 1 ELSE c
         IN AdjustHeap([h EXCEPT ![holeIndex + 1] = h[c2 + 1]], c2, c2, len,
                       value)
    ELSE IF len % 2 = 0 /\ secondChild = (len - 2) \div 2
    THEN LET c == 2 * (secondChild + 1)
         IN PushHeap([h EXCEPT ![holeIndex + 1] = h[c]], c - 1, 0, value)
    ELSE PushHeap(h, holeIndex, 0, value)

\* pq.pop() on a queue that is not empty: pop_heap, then pop_back.
PqPop(h) ==
    IF Len(h) > 1
    THEN SubSeq(AdjustHeap([h EXCEPT ![Len(h)] = h[1]], 0, 0, Len(h) - 1,
                           h[Len(h)]),
                1, Len(h) - 1)
    ELSE <<>>

\* for (auto &p : freqMap) pq.push(make_shared<HuffmanNode>(p.first, p.second));
PqFill(freqMap) ==
    LET keys == MapKeys(DOMAIN freqMap)
        Push(st) == [k |-> st.k + 1,
                     h |-> PqPush(st.h, HuffmanNode(keys[st.k],
                                                    freqMap[keys[st.k]]))]
    IN Iterate(Push, [k |-> 1, h |-> <<>>], Len(keys)).h

\* The queue left as it is when it holds one node: the root is the leaf.
PqWrapSingle_NoWrap(h) == h

\* if (pq.size() == 1) { node->left = single; ... }
PqWrapSingle(h) ==
    IF Len(h) = 1
    THEN PqPush(PqPop(h), [HuffmanNode(-1, h[1].freq) EXCEPT !.left = h[1]])
    ELSE h

\* while (pq.size() > 1) { left = top, pop; right = top, pop; push(parent) }
PqMerge(h) ==
    LET Merge(q) ==
            LET left   == q[1]
                q1     == PqPop(q)
                right  == q1[1]
                q2     == PqPop(q1)
                parent == [HuffmanNode(-1, left.freq + right.freq)
                             EXCEPT !.left = left, !.right = right]
            IN PqPush(q2, parent)
    IN Iterate(Merge, h, Len(h) - 1)

\* the tree both compressHuffman and decompressHuffman build from freqMap;
\* the queue is not empty
BuildTree(freqMap) == PqMerge(PqWrapSingle(PqFill(freqMap)))[1]

\* buildCodeTable(node, code, table): the (value, code) entries it stores
RECURSIVE BuildCodeTable(_, _)
BuildCodeTable(node, code) ==
    IF node.value = -2 THEN {}
    ELSE IF node.value # -1
    THEN {<<node.value, IF code = <<>> THEN <<0>> ELSE code>>}
    ELSE BuildCodeTable(node.left, Append(code, 0))
         \cup BuildCodeTable(node.right, Append(code, 1))

\* for (uint8_t byte : rleData) bitString += codeTable[byte];
EncodeBits(data, table) ==
    LET CodeOf(b) == (CHOOSE e \in table : e[1] = b)[2]
        Add(st) == [k |-> st.k + 1, bits |-> st.bits \o CodeOf(data[st.k])]
    IN Iterate(Add, [k |-> 1, bits |-> <<>>], Len(data)).bits

\* one pass of the packing loop: the byte made of the bits from index i on
PackByte(bitString, i) ==
    LET len == Len(bitString)
        Shift(st) == [j |-> st.j + 1,
                      byte |-> U8(st.byte * 2 + bitString[i + st.j + 1])]
        byte == Iterate(Shift, [j |-> 0, byte |-> 0],
                        IF len - i < 8 THEN len - i ELSE 8).byte
    IN IF i + 8 >= len THEN U8(byte * 2 ^ (8 - (len % 8))) ELSE byte

\* for (size_t i = 0; i < bitString.length(); i += 8) result.push_back(byte);
PackBits(bitString) ==
    [b \in 1..((Len(bitString) + 7) \div 8) |->
        PackByte(bitString, 8 * (b - 1))]

\* the frequency table: each symbol and its count in four bytes
TableBytes(freqMap) ==
    LET keys == MapKeys(DOMAIN freqMap)
    IN [i \in 1..(5 * Len(keys)) |->
          LET key == keys[((i - 1) \div 5) + 1]
              j   == (i - 1) % 5
          IN IF j = 0 THEN key ELSE BE32(freqMap[key])[j]]

\* compressHuffman with the raw branch taken for rleData.size() <
\* RAW_THRESHOLD only.
CompressHuffman_RawBelow(data) ==
    IF data = <<>> THEN <<>>
    ELSE IF Len(data) < RAW_THRESHOLD
    THEN <<RAW_MARKER>> \o BE32(Len(data)) \o data
    ELSE LET freqMap   == FreqMap(data)
             root      == BuildTree(freqMap)
             codeTable == BuildCodeTable(root, <<>>)
             bitString == EncodeBits(data, codeTable)
         IN <<U8(Cardinality(DOMAIN freqMap))>>
            \o TableBytes(freqMap)
            \o BE32(Len(data))
            \o BE32((Len(bitString) + 7) \div 8)
            \o BE32(Len(bitString))
            \o PackBits(bitString)

CompressHuffman(data) ==
    IF data = <<>> THEN <<>>
    ELSE IF Len(data) <= RAW_THRESHOLD
    THEN <<RAW_MARKER>> \o BE32(Len(data)) \o data
    ELSE LET freqMap   == FreqMap(data)
             root      == BuildTree(freqMap)
             codeTable == BuildCodeTable(root, <<>>)
             bitString == EncodeBits(data, codeTable)
         IN <<U8(Cardinality(DOMAIN freqMap))>>
            \o TableBytes(freqMap)
            \o BE32(Len(data))
            \o BE32((Len(bitString) + 7) \div 8)
            \o BE32(Len(bitString))
            \o PackBits(bitString)

\* compressed[pos], with buf the vector compressed: a read at or past
\* compressed.size() is undefined and
\* gives whatever byte lies there, g.
ReadAt(buf, pos, g) ==
    IF pos < Len(buf) THEN buf[pos + 1] ELSE g

\* the four reads that assemble a uint32_t, most significant byte first.
\* A value of 2^31 or more is kept as 2147483647: it is only compared with
\* lengths and counts far below, and compares with them as the value does.
ReadU32(buf, pos, g) ==
    IF ReadAt(buf, pos, g) >= 128 THEN 2147483647
    ELSE ReadAt(buf, pos, g) * 16777216
         + ReadAt(buf, pos + 1, g) * 65536
         + ReadAt(buf, pos + 2, g) * 256
         + ReadAt(buf, pos + 3, g)

\* the same four reads stored into an int, as freqMap[symbol] = freq does
ReadI32(buf, pos, g) ==
    (IF ReadAt(buf, pos, g) >= 128 THEN ReadAt(buf, pos, g) - 256
     ELSE ReadAt(buf, pos, g)) * 16777216
    + ReadAt(buf, pos + 1, g) * 65536
    + ReadAt(buf, pos + 2, g) * 256
    + ReadAt(buf, pos + 3, g)

\* the loop that rebuilds freqMap from the table: a later entry of a symbol
\* replaces an earlier one
ReadFreqMap(buf, freqTableSize, g) ==
    LET Symbol(i) == ReadAt(buf, 1 + 5 * i, g)
        Last(s)   == CHOOSE i \in 0..(freqTableSize - 1) :
                        /\ Symbol(i) = s
                        /\ \A i2 \in 0..(freqTableSize - 1) :
                              Symbol(i2) = s => i2 <= i
    IN [s \in {Symbol(i) : i \in 0..(freqTableSize - 1)} |->
          ReadI32(buf, 1 + 5 * Last(s) + 1, g)]

\* the bit extraction loop and bitString.substr(0, bitLen)
ExtractBits(buf, pos, compLen, bitLen) ==
    LET avail  == IF Len(buf) > pos THEN Len(buf) - pos ELSE 0
        nbytes == IF compLen < avail THEN compLen ELSE avail
        Bit(st) ==
            IF st.stop THEN st
            ELSE [st EXCEPT !.j = st.j - 1,
                            !.bits = Append(st.bits, (st.byte \div 2 ^ st.j) % 2),
                            !.stop = (Len(st.bits) + 1 = bitLen)]
        Byte(st) ==
            [i |-> st.i + 1,
             bits |-> Iterate(Bit, [j |-> 7, bits |-> st.bits, stop |-> FALSE,
                                    byte |-> buf[pos + st.i + 1]],
                              8).bits]
        all == Iterate(Byte, [i |-> 0, bits |-> <<>>], nbytes).bits
    IN SubSeq(all, 1, IF bitLen < Len(all) THEN bitLen ELSE Len(all))

\* the decoding walk: each bit moves to a child, a leaf emits its value and
\* the walk returns to the root; it ends at rleDataLen symbols. Following a
\* null child is undefined.
DecodeBits(root, bitString, rleDataLen) ==
    LET Walk(st) ==
            IF st.done \/ st.fault THEN st
            ELSE LET bit  == bitString[st.k]
                     next == IF bit = 0 THEN st.current.left
                             ELSE st.current.right
                 IN IF next.value = -2
                    THEN [st EXCEPT !.fault = TRUE]
                    ELSE IF next.value # -1
                    THEN [st EXCEPT !.k = st.k + 1,
                                    !.current = root,
                                    !.out = Append(st.out, next.value),
                                    !.done = (Len(st.out) + 1 = rleDataLen)]
                    ELSE [st EXCEPT !.k = st.k + 1, !.current = next]
    IN Iterate(Walk, [k |-> 1, current |-> root, out |-> <<>>,
                      done |-> FALSE, fault |-> FALSE],
               Len(bitString))

\* 5 + len, an int plus a uint32_t, is computed in unsigned 32-bit
\* arithmetic: it wraps when len >= 2^32 - 5, that is when the length bytes
\* are FF FF FF and FB or more.
RawLengthWraps(buf) ==
    buf[2] = 255 /\ buf[3] = 255 /\ buf[4] = 255 /\ buf[5] >= 251

\* if (compressed.size() < 5 + len), for a buffer of at least 5 bytes: the
\* right-hand side is len - (2^32 - 5) when the sum wraps.
RawSizeTooSmall(buf, g) ==
    IF RawLengthWraps(buf) THEN Len(buf) < buf[5] - 251
    ELSE Len(buf) - 5 < ReadU32(buf, 1, g)

\* decompressHuffman(compressed), with g the byte a read past the end gives.
\* The result is the returned bytes and the undefined behaviour met on the
\* way, after which the return value means nothing.
DecompressHuffman(buf, g) ==
    IF buf = <<>> THEN [out |-> <<>>, fault |-> {}]
    ELSE IF buf[1] = RAW_MARKER
    THEN IF Len(buf) < 5 THEN [out |-> <<>>, fault |-> {}]
         ELSE LET len == ReadU32(buf, 1, g)
              IN IF RawSizeTooSmall(buf, g)
                 THEN [out |-> <<>>, fault |-> {}]
                 ELSE IF RawLengthWraps(buf)
                 THEN [out |-> <<>>, fault |-> {"copy past the end"}]
                 ELSE [out |-> SubSeq(buf, 6, 5 + len),
                       fault |-> {}]
    ELSE LET freqTableSize == buf[1]
             freqMap    == ReadFreqMap(buf, freqTableSize, g)
             pos        == 1 + 5 * freqTableSize
             rleDataLen == ReadU32(buf, pos, g)
             compLen    == ReadU32(buf, pos + 4, g)
             bitLen     == ReadU32(buf, pos + 8, g)
             past       == pos + 12 > Len(buf)
             pastEnd    == IF past THEN {"read past the end"} ELSE {}
         IN IF freqTableSize = 0
            THEN [out |-> <<>>,
                  fault |-> pastEnd \cup {"top of an empty queue"}]
            ELSE LET root == BuildTree(freqMap)
                     bits == ExtractBits(buf, pos + 12, compLen, bitLen)
                     walk == DecodeBits(root, bits, rleDataLen)
                 IN [out |-> walk.out,
                     fault |-> pastEnd \cup (IF walk.fault THEN {"null child"}
                                             ELSE {})]

(* ---------------- the Huffman stage, one call at a time ---------------- *)

\* n bytes of value sym
Run(sym, n) == [k \in 1..n |-> sym]

\* The empty input and byte sequences on both sides of RAW_THRESHOLD, with
\* one, two and three distinct symbols, whose code bits do and do not fill
\* the last byte, with four to six symbols whose counts, and the sums of
\* whose counts, are equal, and with 255 and all 256 byte values.
HuffInputs ==
    { <<>>, <<7>>, <<0, 5>>, Run(5, 200), Run(5, 100) \o Run(9, 100),
      Run(5, 201), Run(5, 208),
      Run(5, 207) \o <<9>>, Run(5, 203) \o <<9>>, Run(5, 104) \o Run(9, 104),
      Run(5, 150) \o Run(9, 30) \o Run(7, 21),
      Run(5, 150) \o Run(9, 30) \o Run(7, 23),
      Run(7, 23) \o Run(9, 30) \o Run(5, 150),
      Run(255, 100) \o Run(0, 101),
      Run(1, 51) \o Run(2, 51) \o Run(3, 51) \o Run(4, 51),
      Run(4, 41) \o Run(3, 41) \o Run(2, 41) \o Run(1, 41) \o Run(0, 41),
      Run(1, 50) \o Run(2, 50) \o Run(3, 100) \o Run(4, 1),
      Run(9, 34) \o Run(8, 34) \o Run(7, 34) \o Run(6, 34) \o Run(5, 34)
          \o Run(4, 34),
      [k \in 1..255 |-> k - 1], [k \in 1..256 |-> k - 1] }

\* The bytes a read past the end of the buffer may give.
GarbageBytes == {0, 1, 255}

\* What a call may return after undefined behaviour.
UndefinedOutputs == {<<>>, <<0>>}

\* A tree-mode buffer as it lies on the wire: the table size, the (symbol,
\* count) entries, the three lengths and the packed bits.
TreeBuffer(entries, rleDataLen, compLen, bitLen, packed) ==
    <<Len(entries)>>
    \o [i \in 1..(5 * Len(entries)) |->
          IF (i - 1) % 5 = 0 THEN entries[((i - 1) \div 5) + 1][1]
          ELSE BE32(entries[((i - 1) \div 5) + 1][2])[(i - 1) % 5]]
    \o BE32(rleDataLen) \o BE32(compLen) \o BE32(bitLen) \o packed

\* Buffers with a complete header that no call of compressHuffman wrote:
\* an empty table, one symbol followed by a 1 bit, more packed bytes or
\* more bits declared than present, a raw length of 0 in both modes, a raw
\* length beyond the data up to 2^32 - 1, and well-formed ones next to
\* them.
ReceivedBuffers ==
    { TreeBuffer(<<>>, 0, 0, 0, <<>>),
      TreeBuffer(<<>>, 2, 1, 2, <<64>>),
      TreeBuffer(<<<<5, 3>>>>, 3, 1, 3, <<0>>),
      TreeBuffer(<<<<5, 3>>>>, 3, 1, 3, <<64>>),
      TreeBuffer(<<<<5, 3>>>>, 3, 1, 8, <<1>>),
      TreeBuffer(<<<<5, 2>>, <<9, 1>>>>, 3, 1, 3, <<192>>),
      TreeBuffer(<<<<5, 2>>, <<9, 1>>>>, 3, 4, 3, <<192>>),
      TreeBuffer(<<<<5, 2>>, <<9, 1>>>>, 3, 1, 32, <<192>>),
      TreeBuffer(<<<<5, 2>>, <<9, 1>>>>, 3, 1, 2, <<192>>),
      TreeBuffer(<<<<5, 2>>, <<9, 1>>>>, 0, 1, 3, <<192>>),
      TreeBuffer(<<<<5, 2>>, <<9, 1>>>>, 3, 0, 3, <<192>>),
      TreeBuffer(<<<<5, 2>>, <<9, 1>>>>, 3, 1, 3, <<>>),
      <<255, 0, 0, 0, 0>>, <<255, 0, 0, 0, 0, 7>>,
      <<255, 0, 0, 0, 2, 7>>, <<255, 0, 0, 0, 2, 7, 8>>,
      <<255, 0, 0, 0, 3, 7, 8>>, <<255, 127, 255, 255, 255, 1, 2>>,
      <<255, 255, 255, 255, 250, 1, 2>>, <<255, 255, 255, 255, 251, 1, 2>>,
      <<255, 255, 255, 255, 255>>, <<255, 255, 255, 255, 255, 1, 2>> }

InitHuff ==
    /\ \/ /\ rleData \in HuffInputs
          /\ compressed = <<>>
          /\ hstep = "input"
       \/ /\ rleData = <<>>
          /\ compressed \in ReceivedBuffers
          /\ hstep = "received"
    /\ decompressed = <<>> /\ hfault = {}
    /\ RingIdle /\ PipeIdle /\ CodecIdle
    /\ frame_queue = RingBufferNew(0) /\ cframe = EmptyMat
    /\ pushed = <<>> /\ popped = <<>>

\* vector<uint8_t> result = compressHuffman(rleData);
HuffCompress ==
    /\ hstep = "input"
    /\ compressed' = CompressHuffman(rleData)
    /\ hstep' = "encoded"
    /\ UNCHANGED <<pipeVars, ringVars, queueVars, codecVars, rleData,
                   decompressed, hfault>>

\* the receiver holds only the first n bytes of the buffer
HuffKeepFirst ==
    /\ hstep = "encoded"
    /\ \E n \in 0..MaxCut :
          /\ n < Len(compressed)
          /\ compressed' = SubSeq(compressed, 1, n)
    /\ hstep' = "cut"
    /\ UNCHANGED <<pipeVars, ringVars, queueVars, codecVars, rleData,
                   decompressed, hfault>>

\* the receiver holds the buffer without its last n bytes
HuffDropLast ==
    /\ hstep = "encoded"
    /\ \E n \in 1..MaxCut :
          /\ n < Len(compressed)
          /\ compressed' = SubSeq(compressed, 1, Len(compressed) - n)
    /\ hstep' = "cut"
    /\ UNCHANGED <<pipeVars, ringVars, queueVars, codecVars, rleData,
                   decompressed, hfault>>

\* vector<uint8_t> rleData = decompressHuffman(compressed);
HuffDecompress ==
    /\ hstep \in {"encoded", "cut", "received"}
    /\ \E g \in GarbageBytes :
          LET r == DecompressHuffman(compressed, g)
          IN /\ hfault' = r.fault
             /\ \/ /\ r.fault \subseteq {"read past the end"}
                   /\ decompressed' = r.out
                   /\ hstep' = IF hstep = "encoded" THEN "decoded"
                               ELSE IF hstep = "cut" THEN "decoded cut"
                               ELSE "decoded received"
                \/ /\ ~(r.fault \subseteq {"read past the end"})
                   /\ decompressed' \in UndefinedOutputs
                   /\ hstep' = IF hstep = "encoded" THEN "decoded"
                               ELSE IF hstep = "cut" THEN "decoded cut"
                               ELSE "decoded received"
                \/ /\ r.fault # {}
                   /\ decompressed' = <<>>
                   /\ hstep' = "crashed"
    /\ UNCHANGED <<pipeVars, ringVars, queueVars, codecVars, rleData,
                   compressed>>

NextHuff == HuffCompress \/ HuffKeepFirst \/ HuffDropLast \/ HuffDecompress

SpecHuff == InitHuff /\ [][NextHuff]_vars

(* ----------------------- Huffman stage: claims ------------------------ *)

\* C3 (as claimed): decompressHuffman gives back every nonempty byte
\* sequence compressHuffman was given, in the raw branch and in the tree
\* branch, whatever the number of distinct symbols and of code bits.
C3_HuffmanRoundTrip ==
    hstep = "decoded" => (hfault = {} /\ decompressed = rleData)

\* The buffer ends before its header does: fewer than 5 bytes after the raw
\* marker, or fewer than 1 + 5*tableSize + 12 bytes in tree mode.
ShortHeader ==
    /\ compressed # <<>>
    /\ IF compressed[1] = 255 THEN Len(compressed) < 5
       ELSE Len(compressed) < 1 + 5 * compressed[1] + 12

\* C4 (as claimed): decompressHuffman reads no index at or past the length
\* of its buffer, and returns an empty result for a buffer that ends before
\* its header does.
C4_ReadsInBounds ==
    hstep \in {"decoded", "decoded cut", "crashed"} =>
        /\ "read past the end" \notin hfault
        /\ ShortHeader => (hstep # "crashed" /\ decompressed = <<>>)

(* ------------------ the packet and its padding: claims ---------------- *)

\* C11: in every packet process returns, the payload bytes from the
\* encoder's returned length on are 0, the 9 reserved bytes are 0, the
\* detection slots from the number stored on are (0, 0, 0), the slots before
\* hold the first accepted detections, and the number stored is the smaller
\* of the number accepted and 4.
C11_ZeroPaddingAndBallCount ==
    (variant = "pair" /\ cstep \in {"encoded", "decoded", "displayed"}) =>
        LET p == result.packet
            accepted == Len(detections)
        IN /\ \A k \in 1..275 : k > result.rle_used_byte => p.rle_data[k] = 0
           /\ \A k \in 1..9 : p.reserved[k] = 0
           /\ result.ballCount = (IF accepted < 4 THEN accepted ELSE 4)
           /\ \A k \in 1..4 :
                IF k > result.ballCount
                THEN p.balls[k] = [x |-> 0, y |-> 0, r |-> 0]
                ELSE p.balls[k] = [x |-> detections[k].x % 256,
                                   y |-> detections[k].y % 256,
                                   r |-> detections[k].r % 256]

\* C11 witness: five detections were accepted and four stored, in a packet
\* whose payload is partly used.
C11_WitnessFive ==
    /\ variant = "pair" /\ cstep = "encoded"
    /\ Len(detections) = 5 /\ result.ballCount = 4
    /\ result.rle_used_byte > 0 /\ result.rle_used_byte < 275

\* C12: when compressRLE stopped at the byte budget before the end of the
\* raster, decoding the bytes it wrote gives a raster whose first K cells are
\* the first K cells of the thresholded input, K the sum of the counts
\* written, and whose other cells are 0; the same for the decode of the
\* whole zero-padded payload.
C12_TruncatedPrefixDecodes ==
    (/\ variant = "pair" /\ cstep \in {"decoded", "displayed"}
     /\ CoveredCells(stream) < img.cols * img.rows) =>
        LET K == CoveredCells(stream)
        IN /\ Len(decoded) = img.cols * img.rows
           /\ \A k \in 1..Len(decoded) :
                decoded[k] = (IF k <= K THEN img.data[k] ELSE 0)

\* C12 witness: the encoder filled the budget on a raster with white cells
\* past the ones it covered, and the stream it wrote was decoded.
C12_WitnessCut ==
    /\ variant = "pair" /\ cstep = "decoded"
    /\ Len(stream) = 274
    /\ CoveredCells(stream) < img.cols * img.rows
    /\ \E k \in (CoveredCells(stream) + 1)..Len(img.data) : img.data[k] = 255
    /\ \E k \in 1..CoveredCells(stream) : decoded[k] = 255

C14_MalformedNoFault ==
    (hstep \in {"decoded received", "crashed"} /\ ~ShortHeader) =>
        /\ hstep # "crashed"
        /\ "top of an empty queue" \notin hfault
        /\ "null child" \notin hfault

(* ------------------ the consumer loop: more claims -------------------- *)

\* C15: when the processing of a popped frame throws, the consumer loop
\* catches it: running keeps its value, the main thread holds no lock, the
\* camera thread is not touched, and the main thread is back at the top of
\* its loop, from where it waits for the next frame.
C15_FailureIsolated ==
    /\ [](cpc = "process" => lockHolder # "main")
    /\ [][(/\ cpc = "process"
           /\ Len(processed') = Len(processed) + 1
           /\ processed'[Len(processed')].outcome = "throw")
          => (/\ running' = running
              /\ lockHolder' = lockHolder
              /\ ppc' = ppc /\ pframe' = pframe
              /\ frame_queue' = frame_queue
              /\ cpc' = "loop")]_vars

\* C15 witness: a frame was processed after the processing of an earlier
\* frame threw, and nobody cancelled.
C15_WitnessNextFrame ==
    /\ running
    /\ \E i \in 1..Len(processed) : \E j \in (i + 1)..Len(processed) :
          /\ processed[i].outcome = "throw"
          /\ processed[j].outcome = "ok"

\* C16 (as claimed): the sequence byte of the packet of each processed frame
\* is that of the packet before it plus 1 modulo 256.
C16_SequenceAdvances ==
    \A i \in 1..(Len(processed) - 1) :
        (processed[i].frame_seq # -1 /\ processed[i + 1].frame_seq # -1) =>
            processed[i + 1].frame_seq = (processed[i].frame_seq + 1) % 256


\* The places that hold frame f: the producer's local frame, the slots of the
\* queue, the consumer's local frame.
Holders(f) ==
    (IF pframe = f THEN {<<"producer", 0>>} ELSE {})
        \cup {<<"slot", k>> : k \in {j \in DOMAIN frame_queue.buffer_ :
                                        frame_queue.buffer_[j] = f}}
        \cup (IF cframe = f THEN {<<"consumer", 0>>} ELSE {})

\* C17: every captured frame is held by at most one of the producer's local
\* frame, one queue slot and the consumer's local frame; a successful push
\* leaves the producer's frame empty, a successful pop leaves the popped slot
\* empty, and the queue never holds more than capacity_ frames.
C17_ExclusiveOwnership ==
    /\ [](/\ \A n \in 1..MaxFrames : Cardinality(Holders(<<n>>)) <= 1
          /\ frame_queue.size_ <= frame_queue.capacity_
          /\ Cardinality({k \in DOMAIN frame_queue.buffer_ :
                             frame_queue.buffer_[k] # EmptyMat})
                 = frame_queue.size_)
    /\ [][(Len(pushed') = Len(pushed) + 1) =>
             (/\ pframe' = EmptyMat
              /\ frame_queue'.buffer_[frame_queue.tail_] = pframe
              /\ pframe # EmptyMat)]_vars
    /\ [][(Len(popped') = Len(popped) + 1) =>
             (/\ frame_queue'.buffer_[frame_queue.head_] = EmptyMat
              /\ cframe' = frame_queue.buffer_[frame_queue.head_]
              /\ cframe' # EmptyMat)]_vars

\* A frame has gone from the producer through a full queue to the consumer
\* while later frames sit in the queue and in the producer's hands.
C17_WitnessHandedOver ==
    /\ cframe # EmptyMat
    /\ pframe # EmptyMat
    /\ frame_queue.size_ = frame_queue.capacity_
    /\ Len(popped) >= 1

(* ------------------- the decoders on any stream ----------------------- *)

\* The cells the runs of a packed stream ask for: the sum of the 6-bit counts.
PackedCoveredCells(bytes) ==
    LET Add(st) == [k |-> st.k + 1, sum |-> st.sum + (bytes[st.k] \div 4)]
    IN Iterate(Add, [k |-> 1, sum |-> 0], Len(bytes)).sum

\* C18: on every byte stream and every size both decoders store at most
\* width*height cells, all at indices below width*height: they stop storing
\* once the raster is full although runs remain, and the cells the stream
\* does not cover are 0.
C18_DecodeStaysInRaster ==
    (cstep = "laid out") =>
        LET total == img.cols * img.rows
            stores == IF variant = "pair"
                      THEN DecodeRLEStores(stream, Len(stream),
                                           img.cols, img.rows)
                      ELSE DecodeRLEPackedStores(stream, img.cols, img.rows)
            asked == IF variant = "pair" THEN CoveredCells(stream)
                     ELSE PackedCoveredCells(stream)
        IN /\ Len(stores) <= total
           /\ Len(stores) = (IF asked < total THEN asked ELSE total)
           /\ Len(decoded) = total
           /\ \A k \in 1..total :
                decoded[k] = (IF k <= Len(stores) THEN stores[k] ELSE 0)

\* C18 witness: a received stream whose first run alone asks for more cells
\* than the raster has, with a further run behind it, was decoded into a
\* raster that is now white to its last cell.
C18_WitnessOverlongStream ==
    /\ cstep = "laid out" /\ variant = "pair"
    /\ img.cols * img.rows >= 2
    /\ Len(stream) = 4
    /\ stream[1] > img.cols * img.rows /\ stream[2] = 1 /\ stream[3] > 0
    /\ decoded[img.cols * img.rows] = 255

(* ------------------------ the runs the encoders emit ------------------ *)

\* The cap of the count of a run: 255 in a byte pair, 63 in a packed byte.
RunCap == IF variant = "pair" THEN PAIR_MAX_COUNT ELSE PACKED_MAX_COUNT

\* The runs of the stream, in order: (count, value) pairs of the byte-pair
\* variant, count << 2 | level bytes of the packed one.
EmittedRuns ==
    IF variant = "pair"
    THEN [r \in 1..(Len(stream) \div 2) |->
            [count |-> stream[2 * r - 1], level |-> stream[2 * r]]]
    ELSE [r \in 1..Len(stream) |->
            [count |-> stream[r] \div 4, level |-> stream[r] % 4]]

\* The levels of the cells of the raster as the encoder of the variant
\* reads them.
CellLevels ==
    IF variant = "pair"
    THEN [k \in 1..Len(img.data) |-> PairLevel(img.data[k])]
    ELSE img.data

\* The sum of the counts of the emitted runs.
EmittedCells ==
    IF variant = "pair" THEN CoveredCells(stream)
    ELSE PackedCoveredCells(stream)

\* The budget does not cut the encoder: the packed encoder has no budget, the
\* byte-pair encoder has room for two bytes per run.
NotCut ==
    (variant = "pair") =>
        2 * NumRuns(CellLevels, PAIR_MAX_COUNT) <= RLE_DATA_MAX_BYTE

\* C19: every run an encoder emits has a count from 1 to the cap of the
\* variant (255 for byte pairs, 63 for packed bytes), never 0; a run of the
\* raster longer than the cap is emitted as several runs; two adjacent
\* emitted runs have the same level only when the first has the cap count;
\* and when the budget does not cut the encoder the counts sum to
\* width*height.
C19_RunsWellFormed ==
    (cstep \in {"encoded", "stream"}) =>
        /\ \A r \in 1..Len(EmittedRuns) :
              /\ EmittedRuns[r].count >= 1
              /\ EmittedRuns[r].count <= RunCap
        /\ \A r \in 1..(Len(EmittedRuns) - 1) :
              (EmittedRuns[r].level = EmittedRuns[r + 1].level) =>
                  EmittedRuns[r].count = RunCap
        /\ NotCut =>
              /\ EmittedCells = img.cols * img.rows
              /\ Len(EmittedRuns) = NumRuns(CellLevels, RunCap)

\* C19 witness: a run of the raster longer than 255 cells left the byte-pair
\* encoder as a run of 255 followed by a run of the same level, within the
\* budget.
C19_WitnessSplitRun ==
    /\ variant = "pair" /\ cstep \in {"encoded", "stream"}
    /\ NotCut
    /\ \E r \in 1..(Len(EmittedRuns) - 1) :
          /\ EmittedRuns[r].count = PAIR_MAX_COUNT
          /\ EmittedRuns[r + 1].level = EmittedRuns[r].level

(* ----------------------- the raw bypass ------------------------------- *)

\* The distinct bytes of a sequence.
Symbols(data) == {data[k] : k \in 1..Len(data)}

\* C20: for an input of 1 to 200 bytes compressHuffman returns the byte 0xFF,
\* the length of the input as four bytes, most significant first, and the
\* input unchanged, |X| + 5 bytes in all; a longer input takes the tree
\* branch (table size, table, three lengths, packed bits); the empty input
\* gives the empty output.
C20_RawBypassLayout ==
    (hstep = "encoded") =>
        IF rleData = <<>> THEN compressed = <<>>
        ELSE IF Len(rleData) <= 200
        THEN /\ Len(compressed) = Len(rleData) + 5
             /\ compressed[1] = 255
             /\ \A k \in 2..5 : compressed[k] \in 0..255
             /\ compressed[2] * 16777216 + compressed[3] * 65536
                    + compressed[4] * 256 + compressed[5] = Len(rleData)
             /\ SubSeq(compressed, 6, Len(compressed)) = rleData
        ELSE LET n == Cardinality(Symbols(rleData)) IN
             /\ compressed[1] = n % 256
             /\ Len(compressed) > 1 + 5 * n + 12
             /\ {compressed[2 + 5 * (j - 1)] : j \in 1..n} = Symbols(rleData)
             /\ compressed[5 * n + 2] * 16777216 + compressed[5 * n + 3] * 65536
                    + compressed[5 * n + 4] * 256 + compressed[5 * n + 5]
                        = Len(rleData)

\* C20 witness: an input of exactly 200 bytes was compressed and lies
\* unchanged behind the marker 0xFF and its length.
C20_WitnessAtThreshold ==
    /\ hstep = "encoded"
    /\ Len(rleData) = 200
    /\ compressed[1] = 255 /\ Len(compressed) = 205

(* ----------------------- the tree-mode output ------------------------- *)

\* The 32-bit value of the four bytes of buf from index pos (counted from
\* 0), most significant first.
FieldAt(buf, pos) ==
    buf[pos + 1] * 16777216 + buf[pos + 2] * 65536 + buf[pos + 3] * 256
        + buf[pos + 4]

\* The code bits of the input under the code of the tree built from its
\* frequencies.
CodeBits(data) ==
    EncodeBits(data, BuildCodeTable(BuildTree(FreqMap(data)), <<>>))

\* C21: in the tree-mode output of compressHuffman rawLen is |X|, bitLen is
\* the sum of the code lengths of the input symbols, packedLen is
\* ceil(bitLen / 8), the table frequencies sum to rawLen, the k-th code bit
\* is at bit 7 - (k mod 8) of packed byte k div 8 for every k < bitLen, also
\* when bitLen is a multiple of 8, and the bits of the last byte past bitLen
\* are 0.
C21_TreeModeFields ==
    (hstep = "encoded" /\ Len(rleData) > RAW_THRESHOLD) =>
        LET n == Cardinality(Symbols(rleData))
            at == 1 + 5 * n
            rawLen == FieldAt(compressed, at)
            packedLen == FieldAt(compressed, at + 4)
            bitLen == FieldAt(compressed, at + 8)
            bits == CodeBits(rleData)
            PackedBit(k) ==
                (compressed[at + 12 + (k \div 8) + 1] \div 2 ^ (7 - (k % 8))) % 2
            Freqs(st) == [j |-> st.j + 1,
                          sum |-> st.sum + FieldAt(compressed, 2 + 5 * st.j)]
        IN /\ rawLen = Len(rleData)
           /\ bitLen = Len(bits)
           /\ packedLen = (bitLen + 7) \div 8
           /\ Len(compressed) = at + 12 + packedLen
           /\ Iterate(Freqs, [j |-> 0, sum |-> 0], n).sum = rawLen
           /\ \A k \in 0..(bitLen - 1) : PackedBit(k) = bits[k + 1]
           /\ \A k \in bitLen..(8 * packedLen - 1) : PackedBit(k) = 0

(* ------------------- the tree on both sides --------------------------- *)

\* The walk of decompressHuffman from node: '0' goes left, '1' goes right,
\* and a node whose value is not -1 ends the walk; the (value, bits walked)
\* of every leaf that can be reached.
RECURSIVE LeafPaths(_, _)
LeafPaths(node, path) ==
    IF node.value = -2 THEN {}
    ELSE IF node.value # -1 THEN {<<node.value, path>>}
    ELSE LeafPaths(node.left, Append(path, 0))
         \cup LeafPaths(node.right, Append(path, 1))

\* a is a proper prefix of b
IsPrefix(a, b) == Len(a) < Len(b) /\ SubSeq(b, 1, Len(a)) = a

CameraAtQueue == ppc \in {"eval", "push"}

\* The main thread is at a call of frame_queue.empty() or frame_queue.pop.
MainAtQueue == cpc \in {"eval", "check"}

\* C23: in live capture every call of push, pop, full() and empty() is made
\* by a thread that holds camera_mutex, so the two threads are never at the
\* queue at once and head_, tail_, size_ and the slots change only in a step
\* of the thread that holds the lock.
C23_QueueUnderLock ==
    /\ [](/\ CameraAtQueue => lockHolder = "camera"
          /\ MainAtQueue => lockHolder = "main"
          /\ ~(CameraAtQueue /\ MainAtQueue))
    /\ [][(frame_queue' # frame_queue) =>
             \/ lockHolder = "camera" /\ ppc = "push" /\ cpc' = cpc
             \/ lockHolder = "main" /\ cpc = "check" /\ ppc' = ppc]_vars

\* C23 witness: the main thread pops from a queue that holds frames while
\* the camera thread stands before the lock with the next frame.
C23_WitnessContended ==
    /\ cpc = "check" /\ lockHolder = "main"
    /\ ppc = "lock" /\ pframe # EmptyMat
    /\ ~RingEmpty(frame_queue)

\* The main thread is outside its dequeue block and before the shutdown:
\* at the loop test, at the notify after the pop, or processing, showing and
\* pacing a frame.
MainOutsideDequeue == cpc \in {"loop", "lock", "notify", "process"}

\* C24: the consumer holds camera_mutex nowhere outside the dequeue block:
\* every way out of the block (a pop, the continue on an empty queue, the
\* break on cancellation) leaves the mutex free of the main thread, so while
\* a frame is processed the camera thread finds the mutex free or holds it
\* itself and can push.
C24_ProcessingOutsideLock ==
    /\ [](/\ MainOutsideDequeue => lockHolder # "main"
          /\ (cpc = "process" /\ ppc \in {"lock", "blocked"}) =>
                lockHolder = "none")
    /\ [][(cpc = "check" /\ cpc' # cpc) => lockHolder' # "main"]_vars
    /\ [][(cpc = "process" /\ ppc = "push" /\ ppc' # ppc) =>
             (Len(pushed') = Len(pushed) + 1 /\ cpc' = "process")]_vars

\* C24 witness: while the main thread processes a frame the camera thread
\* holds the mutex and is about to push the next one.
C24_WitnessPushDuringProcess ==
    /\ cpc = "process" /\ cframe # EmptyMat
    /\ ppc = "push" /\ lockHolder = "camera"

(* ------------------- the indices of the queue ------------------------- *)

\* C25: after any calls of push and pop, one at a time, on a RingBuffer of
\* capacity N >= 1: 0 <= size_ <= N, 0 <= head_ < N, 0 <= tail_ < N and
\* tail_ = (head_ + size_) mod N; a push that returns true moves tail_ one
\* slot on, modulo N, and adds one to size_, leaving head_; a pop that
\* returns true moves head_ one slot on, modulo N, and takes one from size_,
\* leaving tail_.
C25_IndicesInRange ==
    /\ [](LET q == frame_queue
              N == frame_queue.capacity_
          IN /\ N >= 1
             /\ 0 <= q.size_ /\ q.size_ <= N
             /\ 0 <= q.head_ /\ q.head_ < N
             /\ 0 <= q.tail_ /\ q.tail_ < N
             /\ q.tail_ = (q.head_ + q.size_) % N)
    /\ [][(ncalls' = ncalls + 1 /\ ret' /\ lastCall' = "push") =>
             /\ frame_queue'.tail_
                    = (frame_queue.tail_ + 1) % frame_queue.capacity_
             /\ frame_queue'.size_ = frame_queue.size_ + 1
             /\ frame_queue'.head_ = frame_queue.head_
             /\ frame_queue'.capacity_ = frame_queue.capacity_]_vars
    /\ [][(ncalls' = ncalls + 1 /\ ret' /\ lastCall' = "pop") =>
             /\ frame_queue'.head_
                    = (frame_queue.head_ + 1) % frame_queue.capacity_
             /\ frame_queue'.size_ = frame_queue.size_ - 1
             /\ frame_queue'.tail_ = frame_queue.tail_
             /\ frame_queue'.capacity_ = frame_queue.capacity_]_vars

\* C25 witness: a push has just been accepted into a queue of capacity at
\* least 2 whose tail_ has wrapped to a slot before head_.
C25_WitnessWrapped ==
    /\ frame_queue.capacity_ >= 2
    /\ lastCall = "push" /\ ret
    /\ frame_queue.tail_ < frame_queue.head_
    /\ frame_queue.size_ >= 2

(* ------------------- the payload decoded whole ------------------------ *)

\* The bytes followed by zeros up to the RLE_DATA_MAX_BYTE bytes of
\* MqttPacket::rle_data, the last byte being last.
Payload(bytes, last) ==
    [k \in 1..RLE_DATA_MAX_BYTE |->
        IF k <= Len(bytes) THEN bytes[k]
        ELSE IF k = RLE_DATA_MAX_BYTE THEN last ELSE 0]

\* C26: decoding all 275 bytes of the payload, as both run loops do, gives
\* the raster that decoding the first usedBytes bytes gives: the zero
\* padding is runs of count 0, which store nothing, and the byte at index
\* 274, which has no partner, is not read, whatever it holds.
C26_PaddingDecodesToNothing ==
    /\ (cstep = "displayed") =>
          /\ result.packet.rle_data = Payload(stream, 0)
          /\ Len(stream) = result.rle_used_byte
          /\ decoded = DecodeRLE(stream, Len(stream), img.cols, img.rows)
    /\ (cstep = "laid out" /\ variant = "pair") =>
          /\ DecodeRLE(Payload(stream, 0), RLE_DATA_MAX_BYTE,
                       img.cols, img.rows) = decoded
          /\ DecodeRLE(Payload(stream, 255), RLE_DATA_MAX_BYTE,
                       img.cols, img.rows) = decoded
          /\ (Len(stream) % 2 = 1) =>
                DecodeRLE(stream, Len(stream) - 1, img.cols, img.rows)
                    = decoded

\* C26 witness: a packet whose payload is mostly padding was decoded whole
\* into a raster with white cells.
C26_WitnessPaddedPayload ==
    /\ cstep = "displayed"
    /\ result.rle_used_byte < 10
    /\ \E k \in 1..Len(decoded) : decoded[k] = 255
    /\ result.packet.rle_data[result.rle_used_byte + 1] = 0

(* ----------------------- the table size byte -------------------------- *)

\* C27: the first byte of the tree-mode output of compressHuffman is the
\* number of table entries that follow it and is never 0xFF, whatever the
\* number of distinct symbols from 1 to 256, so that decompressHuffman takes
\* the tree branch and reads as many entries as were written.
C27_TableSizeByte ==
    (hstep = "encoded" /\ Len(rleData) > RAW_THRESHOLD) =>
        /\ compressed[1] = Cardinality(Symbols(rleData))
        /\ compressed[1] # RAW_MARKER
        /\ Len(compressed) > 1 + 5 * compressed[1] + 12

(* ----------------------- the raw length ------------------------------- *)

\* The length a raw-bypass buffer declares is more than the bytes it holds
\* behind its 5-byte prefix.
RawLengthExceeds ==
    /\ Len(compressed) >= 5 /\ compressed[1] = RAW_MARKER
    /\ ReadU32(compressed, 1, 0) > Len(compressed) - 5

\* C28: for a raw-bypass buffer whose declared 32-bit length is more than
\* the bytes present behind the 5-byte prefix, lengths of 2^32 - 5 and more
\* included, decompressHuffman returns an empty result and reads nothing
\* outside the buffer.
C28_RawLengthChecked ==
    (hstep \in {"decoded received", "crashed"} /\ RawLengthExceeds) =>
        /\ hstep # "crashed"
        /\ hfault = {}
        /\ decompressed = <<>>

(* ------------------- calls that cannot be refused --------------------- *)

\* C29: with one camera thread and one main thread, the push made under the
\* lock after the wait for space has returned with running true returns
\* true, and the pop made under the lock after the test for a non-empty
\* queue returns true: the "Failed to push frame to queue" branch and the
\* continue after a refused pop are never taken; every frame in the queue is
\* non-empty, so the skip of an empty popped frame is never taken either.
C29_PushAndPopSucceed ==
    /\ [](/\ ppc = "push" => (~RingFull(frame_queue) /\ pframe # EmptyMat)
          /\ offered = pushed
          /\ \A k \in 1..frame_queue.size_ :
                QueueContents(frame_queue)[k] # EmptyMat
          /\ cpc \in {"notify", "process"} => cframe # EmptyMat)
    /\ [][(ppc = "push" /\ ppc' # ppc) =>
             Len(pushed') = Len(pushed) + 1]_vars
    /\ [][(cpc = "check" /\ cpc' # cpc /\ ~RingEmpty(frame_queue)) =>
             (Len(popped') = Len(popped) + 1 /\ cpc' = "notify")]_vars
    /\ [][(cpc = "notify" /\ cpc' # cpc) => cpc' = "process"]_vars

\* C29 witness: more frames than the queue holds have been pushed, the last
\* of them just now, and the main thread is processing a frame it popped
\* after another.
C29_WitnessAfterWait ==
    /\ Len(pushed) > frame_queue.capacity_
    /\ Len(popped) >= 2
    /\ cpc = "process"
    /\ ppc = "notify"
=============================================================================
